---------------------------- MODULE Spec2Model ----------------------------
(***************************************************************************)
(* A model of toniowm: the window/workspace registry (src/src/state.rs),   *)
(* the dispatch loop (src/src/window_manager.rs) and the display server    *)
(* and IPC clients that feed it.                                           *)
(*                                                                         *)
(* The registry is modelled functionally: every method of State is an      *)
(* operator that takes the registry value s and returns the outcome        *)
(* [state, err, val]: the registry afterwards, "Ok" or the Error variant   *)
(* (or "Panic" for an unwrap of None), and the returned value.             *)
(***************************************************************************)
EXTENDS Integers, Sequences, FiniteSets, TLC

(***************************************************************************)
(* Bounds of the model.                                                    *)
(***************************************************************************)
\* the workspace list grows to at most this length
MaxWorkspaces == 2
\* protocol events buffered in the (unbounded) event channel
MaxEvents == 2
\* commands buffered in the (unbounded) command channel
MaxCommands == 1
\* inputs (protocol events and commands) the environment produces in a run
MaxInputs == 4
\* the workspace list grows to at most this length when the workspace methods
\* are called on their own
MaxNamed == 3
\* clients of the workspace the focus methods are called on
MaxClients == 3
\* IPC connections open at a time
MaxConnections == 2

(***************************************************************************)
(* Values.                                                                 *)
(***************************************************************************)
\* Option<T>
None == << >>
Some(v) == << v >>
unwrap(o) == o[1]

\* the window identifiers client programs create
Windows == {1, 2}
\* x::Window::none()
NoneXid == 0
\* screen.root(): the root window of the screen
Root == 9

\* Vector2D
Vector2D(x, y) == [x |-> x, y |-> y]
MIN_CLIENT_SIZE == Vector2D(32, 32)
VAdd(a, b) == Vector2D(a.x + b.x, a.y + b.y)
VSub(a, b) == Vector2D(a.x - b.x, a.y - b.y)
Max2(a, b) == IF a >= b THEN a ELSE b
VMax(a, b) == Vector2D(Max2(a.x, b.x), Max2(a.y, b.y))

\* usize::to_string
Digits == << "0", "1", "2", "3", "4", "5", "6", "7", "8", "9" >>
RECURSIVE to_string(_)
to_string(n) ==
    IF n < 10 THEN Digits[n + 1]
    ELSE to_string(n \div 10) \o Digits[(n % 10) + 1]

\* WorkspaceSelector
Index(i) == [kind |-> "Index", index |-> i, name |-> ""]
Name(n) == [kind |-> "Name", index |-> 0, name |-> n]
\* WindowSelector
Focused == [kind |-> "Focused", window |-> NoneXid]
Window(w) == [kind |-> "Window", window |-> w]

\* the outcome of a registry method
Ok(s, v) == [state |-> s, err |-> "Ok", val |-> v]
Err(s, e) == [state |-> s, err |-> e, val |-> None]
\* an unwrap() of None: the calling thread panics
Panic(s) == [state |-> s, err |-> "Panic", val |-> None]

(***************************************************************************)
(* IndexMap.  workspaces is a sequence of entries [name, hkey, clients]:   *)
(* name is the key as it is now (and Workspace::name, which the code keeps *)
(* equal to it), hkey the key the entry was hashed under when inserted.    *)
(* rename_workspace writes the key in place through MutableKeys, which     *)
(* does not rehash: a lookup finds an entry only under the hash it was     *)
(* inserted with, and then compares the key as it is now.                  *)
(***************************************************************************)
\* IndexMap::get_index
get_index(map, i) == IF i \in 1 .. Len(map) THEN Some(map[i]) ELSE None

\* IndexMap::get_index_of on the workspaces: Some(0-based index) or None
get_index_of(workspaces, name) ==
    LET hit == {i \in 1 .. Len(workspaces) :
                   workspaces[i].hkey = name /\ workspaces[i].name = name}
    IN IF hit = {} THEN None
       ELSE Some((CHOOSE i \in hit : \A j \in hit : i <= j) - 1)

\* IndexMap::contains_key on the workspaces
contains_key(workspaces, name) == get_index_of(workspaces, name) # None

\* the index of window in a client map (0 when absent)
client_index(clients, window) ==
    IF \E i \in 1 .. Len(clients) : clients[i].window = window
    THEN CHOOSE i \in 1 .. Len(clients) : clients[i].window = window
    ELSE 0

\* IndexMap::shift_remove: the entries after the removed one move up
shift_remove(clients, window) ==
    LET i == client_index(clients, window)
    IN IF i = 0 THEN clients
       ELSE SubSeq(clients, 1, i - 1) \o SubSeq(clients, i + 1, Len(clients))

(***************************************************************************)
(* State (src/src/state.rs).                                               *)
(***************************************************************************)
NewWorkspace(name) == [name |-> name, hkey |-> name, clients |-> << >>]
Client(window, pos, size) == [window |-> window, pos |-> pos, size |-> size]

\* add_workspace as it would be if it named a workspace after its ordinal
add_workspace_ordinal(s, name) ==
    LET nm == IF name # None THEN unwrap(name)
              ELSE to_string(Len(s.workspaces) + 1)
    IN IF contains_key(s.workspaces, nm)
       THEN Err(s, "WorkspaceAlreadyExists")
       ELSE Ok([s EXCEPT !.workspaces = Append(@, NewWorkspace(nm))],
               NewWorkspace(nm))

\* State::add_workspace
add_workspace(s, name) ==
    LET nm == IF name # None THEN unwrap(name)
              ELSE to_string(Len(s.workspaces))
    IN IF contains_key(s.workspaces, nm)
       THEN Err(s, "WorkspaceAlreadyExists")
       ELSE Ok([s EXCEPT !.workspaces = Append(@, NewWorkspace(nm))],
               NewWorkspace(nm))

\* State::default, with the root window run() records in it
DefaultState ==
    add_workspace([root |-> NoneXid, child |-> NoneXid, workspaces |-> << >>,
                   active_workspace |-> 0, focused |-> None,
                   last_focused |-> None,
                   drag_start_pos |-> Vector2D(0, 0),
                   drag_start_frame_pos |-> Vector2D(0, 0)], None).state

\* rename_workspace as it would be if it removed the entry and inserted it
\* again under the new name: the workspace moves to the end of the list
rename_workspace_reinserts(s, selector, name) ==
    LET found == IF selector.kind = "Index"
                 THEN (IF selector.index + 1 \in 1 .. Len(s.workspaces)
                       THEN Some(selector.index) ELSE None)
                 ELSE get_index_of(s.workspaces, selector.name)
    IN IF found = None THEN Err(s, "WorkspaceNotFound")
       ELSE LET i == unwrap(found) + 1
            IN Ok([s EXCEPT !.workspaces =
                       SubSeq(@, 1, i - 1) \o SubSeq(@, i + 1, Len(@))
                       \o << [name |-> name, hkey |-> name,
                              clients |-> @[i].clients] >>], None)

\* State::rename_workspace
rename_workspace(s, selector, name) ==
    LET found == IF selector.kind = "Index"
                 THEN (IF selector.index + 1 \in 1 .. Len(s.workspaces)
                       THEN Some(selector.index) ELSE None)
                 ELSE get_index_of(s.workspaces, selector.name)
    IN IF found = None THEN Err(s, "WorkspaceNotFound")
       ELSE Ok([s EXCEPT !.workspaces[unwrap(found) + 1].name = name], None)

\* State::activate_workspace
activate_workspace(s, selector) ==
    LET index == IF selector.kind = "Index" THEN Some(selector.index)
                 ELSE get_index_of(s.workspaces, selector.name)
    IN IF index # None
       THEN Ok([s EXCEPT !.active_workspace = unwrap(index)], unwrap(index))
       ELSE Err(s, "WorkspaceNotFound")

\* State::workspaces
workspaces(s) == s.workspaces

\* whether State::active_workspace_clients' get_index(..).unwrap() succeeds
active_exists(s) == get_index(s.workspaces, s.active_workspace + 1) # None

\* State::active_workspace_clients (and _mut), where it does not panic
active_workspace_clients(s) == s.workspaces[s.active_workspace + 1].clients

\* State::set_focused
set_focused(s, window) ==
    [s EXCEPT !.last_focused = s.focused, !.focused = window]

\* State::last_focused
last_focused(s) == s.last_focused

\* add_client as it would be if it inserted without looking the window up:
\* IndexMap::insert replaces the value of a key that is present
add_client_replaces(s, window, pos, size) ==
    IF ~active_exists(s) THEN Panic(s)
    ELSE LET i == client_index(active_workspace_clients(s), window)
         IN Ok([s EXCEPT !.workspaces[s.active_workspace + 1].clients =
                             IF i = 0 THEN Append(@, Client(window, pos, size))
                             ELSE [@ EXCEPT ![i] = Client(window, pos, size)]],
               Client(window, pos, size))

\* State::add_client
add_client(s, window, pos, size) ==
    IF ~active_exists(s) THEN Panic(s)
    ELSE IF client_index(active_workspace_clients(s), window) # 0
    THEN Err(s, "ClientAlreadyExists")
    ELSE Ok([s EXCEPT !.workspaces[s.active_workspace + 1].clients =
                           Append(@, Client(window, pos, size))],
            Client(window, pos, size))

\* remove_client as it would be if it left focused alone
remove_client_keeps_focus(s, window) ==
    IF ~active_exists(s) THEN Panic(s)
    ELSE IF client_index(active_workspace_clients(s), window) = 0
    THEN Err(s, "ClientNotFound")
    ELSE Ok([s EXCEPT !.workspaces[s.active_workspace + 1].clients =
                          shift_remove(@, window)], None)

\* remove_client as it would be with IndexMap::swap_remove, which moves the
\* last entry into the place of the removed one
remove_client_swaps(s, window) ==
    IF ~active_exists(s) THEN Panic(s)
    ELSE LET clients == active_workspace_clients(s)
             i == client_index(clients, window)
             swapped == IF i = Len(clients) THEN SubSeq(clients, 1, i - 1)
                        ELSE [j \in 1 .. Len(clients) - 1 |->
                                 IF j = i THEN clients[Len(clients)]
                                 ELSE clients[j]]
         IN IF i = 0 THEN Err(s, "ClientNotFound")
            ELSE LET u == [s EXCEPT !.workspaces[s.active_workspace + 1].clients
                                        = swapped]
                 IN Ok(IF s.focused = Some(window)
                       THEN [u EXCEPT !.focused = None] ELSE u, None)

\* State::remove_client
remove_client(s, window) ==
    IF ~active_exists(s) THEN Panic(s)
    ELSE IF client_index(active_workspace_clients(s), window) = 0
    THEN Err(s, "ClientNotFound")
    ELSE LET t == [s EXCEPT !.workspaces[s.active_workspace + 1].clients =
                                shift_remove(@, window)]
         IN Ok(IF s.focused = Some(window)
               THEN [t EXCEPT !.focused = None] ELSE t, None)

\* a method that rewrites one field of a client of the active workspace
update_client(s, window, field, value) ==
    LET i == client_index(active_workspace_clients(s), window)
        t == [s EXCEPT !.workspaces[s.active_workspace + 1].clients[i][field] =
                           value]
    IN Ok(t, active_workspace_clients(t)[i])

\* drag_client as it would be if it moved the client from where it is now
\* instead of from where the frame was when the button was pressed
drag_client_from_current(s, window, mouse_pos) ==
    LET i == client_index(active_workspace_clients(s), window)
    IN IF ~active_exists(s) THEN Panic(s)
       ELSE IF i = 0 THEN Err(s, "ClientNotFound")
       ELSE update_client(s, window, "pos",
                VSub(VAdd(active_workspace_clients(s)[i].pos, mouse_pos),
                     s.drag_start_pos))

\* State::drag_client
drag_client(s, window, mouse_pos) ==
    LET new_pos == VSub(VAdd(s.drag_start_frame_pos, mouse_pos),
                        s.drag_start_pos)
    IN IF ~active_exists(s) THEN Panic(s)
       ELSE IF client_index(active_workspace_clients(s), window) = 0
       THEN Err(s, "ClientNotFound")
       ELSE update_client(s, window, "pos", new_pos)

\* drag_resize_client as it would be if it applied the floor only when both
\* axes are below it
drag_resize_client_joint_floor(s, window, mouse_pos) ==
    IF ~active_exists(s) THEN Panic(s)
    ELSE LET i == client_index(active_workspace_clients(s), window)
         IN IF i = 0 THEN Err(s, "ClientNotFound")
            ELSE LET size == VSub(mouse_pos, active_workspace_clients(s)[i].pos)
                 IN update_client(s, window, "size",
                        IF size.x < MIN_CLIENT_SIZE.x /\ size.y < MIN_CLIENT_SIZE.y
                        THEN MIN_CLIENT_SIZE ELSE size)

\* State::drag_resize_client
drag_resize_client(s, window, mouse_pos) ==
    IF ~active_exists(s) THEN Panic(s)
    ELSE LET i == client_index(active_workspace_clients(s), window)
         IN IF i = 0 THEN Err(s, "ClientNotFound")
            ELSE update_client(s, window, "size",
                     VMax(VSub(mouse_pos, active_workspace_clients(s)[i].pos),
                          MIN_CLIENT_SIZE))

\* State::teleport_client
teleport_client(s, window, pos) ==
    IF ~active_exists(s) THEN Panic(s)
    ELSE IF client_index(active_workspace_clients(s), window) = 0
    THEN Err(s, "ClientNotFound")
    ELSE update_client(s, window, "pos", pos)

\* State::focus_client
focus_client(s, window) ==
    IF s.root = window THEN Ok(set_focused(s, None), None)
    ELSE IF ~active_exists(s) THEN Panic(s)
    ELSE IF client_index(active_workspace_clients(s), window) # 0
    THEN Ok(set_focused(s, Some(window)), None)
    ELSE Err(s, "ClientNotFound")

\* State::select_client
select_client(s, selector) ==
    IF selector.kind = "Focused" /\ s.focused = None
    THEN Err(s, "ClientNotFound")
    ELSE IF ~active_exists(s) THEN Panic(s)
    ELSE LET window == IF selector.kind = "Focused" THEN unwrap(s.focused)
                       ELSE selector.window
             i == client_index(active_workspace_clients(s), window)
         IN IF i = 0 THEN Err(s, "ClientNotFound")
            ELSE Ok(s, active_workspace_clients(s)[i])

\* Direction
Directions == {"East", "West", "North", "South"}

\* the half-plane test of one arm of the match on direction
on_side(c, client, direction) ==
    CASE direction = "East" -> c.pos.x > client.pos.x
      [] direction = "West" -> c.pos.x < client.pos.x
      [] direction = "North" -> c.pos.y < client.pos.y
      [] direction = "South" -> c.pos.y > client.pos.y

I32_MAX == 2147483647

\* i32::wrapping_add: the sum modulo 2^32, as an i32
wrapping_add(x, y) ==
    IF y >= 0 /\ x > I32_MAX - y
    THEN (x - I32_MAX - 1) + (y - I32_MAX - 1)
    ELSE IF y < 0 /\ x < (-I32_MAX - 1) - y
    THEN (x + I32_MAX + 1) + (y + I32_MAX + 1)
    ELSE x + y

\* i32::wrapping_mul by b >= 0: the product modulo 2^32, as an i32
RECURSIVE wrapping_mul(_, _)
wrapping_mul(a, b) ==
    IF b = 0 THEN 0
    ELSE LET h == wrapping_mul(wrapping_add(a, a), b \div 2)
         IN IF b % 2 = 1 THEN wrapping_add(h, a) ELSE h

\* i32::abs
abs(d) == IF d < 0 THEN 0 - d ELSE d

\* an i32 operation: its wrapped value, and whether it overflowed (a build
\* with overflow checks panics there, a build without them goes on with the
\* wrapped value)
pow2(d) ==
    LET overflow == d # 0 /\ abs(d) > I32_MAX \div abs(d)
    IN [value |-> IF overflow THEN wrapping_mul(abs(d), abs(d)) ELSE d * d,
        overflow |-> overflow]
checked_add(x, y) ==
    [value |-> wrapping_add(x.value, y.value),
     overflow |-> \/ x.overflow
                  \/ y.overflow
                  \/ (y.value >= 0 /\ x.value > I32_MAX - y.value)
                  \/ (y.value < 0 /\ x.value < (-I32_MAX - 1) - y.value)]

\* dx.pow(2) + dy.pow(2); the positions come from 16-bit protocol
\* coordinates and drags over them, so dx and dy themselves do not overflow
distance(c, client) ==
    LET dx == c.pos.x - client.pos.x
        dy == c.pos.y - client.pos.y
    IN checked_add(pow2(dx), pow2(dy))

\* the for loop of State::focus_closest_client from the i-th client on, with
\* the loop's variables min_distance and closest_client; overflow_checks is
\* whether the build panics on arithmetic overflow
RECURSIVE closest_scan(_, _, _, _, _, _, _)
closest_scan(clients, i, client, direction, min_distance, closest_client, overflow_checks) ==
    IF i > Len(clients) THEN [panic |-> FALSE, closest |-> closest_client]
    ELSE LET c == clients[i]
             d == distance(c, client)
         IN IF c.window = client.window
            THEN closest_scan(clients, i + 1, client, direction,
                              min_distance, closest_client, overflow_checks)
            ELSE IF overflow_checks /\ d.overflow
            THEN [panic |-> TRUE, closest |-> None]
            ELSE IF on_side(c, client, direction) /\ d.value < min_distance
            THEN closest_scan(clients, i + 1, client, direction,
                              d.value, Some(c), overflow_checks)
            ELSE closest_scan(clients, i + 1, client, direction,
                              min_distance, closest_client, overflow_checks)

\* State::focus_closest_client
focus_closest_client(s, selector, direction, overflow_checks) ==
    LET sel == select_client(s, selector)
    IN IF sel.err # "Ok" THEN sel
       ELSE LET scan == closest_scan(active_workspace_clients(s), 1, sel.val,
                                     direction, I32_MAX, None, overflow_checks)
            IN IF scan.panic THEN Panic(s)
               ELSE IF scan.closest = None THEN Ok(s, None)
               ELSE Ok(set_focused(s, Some(unwrap(scan.closest).window)),
                       scan.closest)

\* State::workspaces_names
workspaces_names(s) == [i \in 1 .. Len(s.workspaces) |-> s.workspaces[i].name]

\* State::focused
focused(s) == s.focused

(***************************************************************************)
(* The state of the model.                                                 *)
(***************************************************************************)
VARIABLES
    state,      \* WindowManager::state, the registry
    config,     \* WindowManager::config
    pc,         \* where run() (or the caller of the registry) is
    events,     \* the channel from the protocol-event reader thread
    commands,   \* the channel from the IPC workers (client_receiver)
    xserver,    \* the display server: the windows that exist, those mapped
    requests,   \* the protocol requests the last handled input emitted
    last,       \* the last registry call or handled input: [op, args, err]
    inputs,     \* the number of inputs the environment has produced
    threads,    \* the threads spawned so far besides the main thread
    connections \* the IPC connections accepted, each with its worker thread

vars == << state, config, pc, events, commands, xserver, requests, last,
           inputs, threads, connections >>

\* Config::default
DefaultConfig ==
    [border_width |-> 0, border_color |-> 13421772,
     focused_border_color |-> 52479]

NoCall == [op |-> "", args |-> << >>, err |-> ""]

(***************************************************************************)
(* The registry on its own, its public methods called in any order, as the *)
(* unit tests of state.rs call them.  SpecWorkspaces calls the workspace   *)
(* methods with any names and selectors; SpecState calls the client and    *)
(* focus methods, over workspaces that keep their default names.           *)
(***************************************************************************)
\* the inputs of the calls
WsNames == {"0", "1", "a"}
NameOpts == {None} \cup {Some(n) : n \in WsNames}
WsSelectors == {Index(i) : i \in 0 .. MaxNamed}
                   \cup {Name(n) : n \in WsNames}
DefaultSelectors == {Index(i) : i \in 0 .. MaxWorkspaces}
                        \cup {Name(to_string(i)) : i \in 0 .. MaxWorkspaces}
WinSelectors == {Focused} \cup {Window(w) : w \in Windows}
\* the geometry client programs create their windows with
WinPos(w) == Vector2D(40 * (w - 1), 40 * (w - 1))
WinSize(w) == Vector2D(100, 100)

InitState ==
    /\ state = [DefaultState EXCEPT !.root = Root]
    /\ config = DefaultConfig
    /\ pc = "calls"
    /\ events = << >>
    /\ commands = << >>
    /\ xserver = [alive |-> {}, mapped |-> {}, destroyed |-> {},
                  grabbed |-> {}, geometry |-> << >>,
                  border |-> << >>, width |-> << >>, focus |-> NoneXid]
    /\ requests = << >>
    /\ last = NoCall
    /\ inputs = 0
    /\ threads = {}
    /\ connections = << >>

\* a call of a registry method with outcome r
Call(op, args, r) ==
    /\ pc = "calls"
    /\ state' = r.state
    /\ last' = [op |-> op, args |-> args, err |-> r.err]
    /\ pc' = IF r.err = "Panic" THEN "panicked" ELSE "calls"
    /\ UNCHANGED << config, events, commands, xserver, requests, inputs,
                    threads, connections >>

Call_add_workspace(names, max) ==
    \E name \in names :
        /\ Len(state.workspaces) < max
               \/ add_workspace(state, name).err # "Ok"
        /\ Call("add_workspace", << name >>, add_workspace(state, name))

Call_rename_workspace ==
    \E selector \in WsSelectors, name \in WsNames :
        Call("rename_workspace", << selector, name >>,
             rename_workspace(state, selector, name))

Call_activate_workspace(selectors) ==
    \E selector \in selectors :
        Call("activate_workspace", << selector >>,
             activate_workspace(state, selector))

Call_add_client ==
    \E window \in Windows :
        Call("add_client", << window >>,
             add_client(state, window, WinPos(window), WinSize(window)))

Call_remove_client(windows) ==
    \E window \in windows :
        Call("remove_client", << window >>, remove_client(state, window))

Call_focus_client(windows) ==
    \E window \in windows \cup {Root} :
        Call("focus_client", << window >>, focus_client(state, window))

Call_focus_closest_client(selectors) ==
    \E selector \in selectors, direction \in Directions,
       overflow_checks \in BOOLEAN :
        Call("focus_closest_client", << selector, direction >>,
             focus_closest_client(state, selector, direction,
                                  overflow_checks))

Call_select_client ==
    \E selector \in WinSelectors :
        Call("select_client", << selector >>, select_client(state, selector))

NextWorkspaces ==
    \/ Call_add_workspace(NameOpts, MaxNamed)
    \/ Call_rename_workspace
    \/ Call_activate_workspace(WsSelectors)

SpecWorkspaces == InitState /\ [][NextWorkspaces]_vars

NextState ==
    \/ Call_add_workspace({None}, MaxWorkspaces)
    \/ Call_activate_workspace(DefaultSelectors)
    \/ Call_add_client
    \/ Call_remove_client(Windows)
    \/ Call_focus_client(Windows)
    \/ Call_focus_closest_client(WinSelectors)
    \/ Call_select_client

SpecState == InitState /\ [][NextState]_vars

(***************************************************************************)
(* The focus methods over clients anywhere on the plane: SpecClosest       *)
(* starts from a registry of up to MaxClients clients, window i the i-th   *)
(* added, each at any of Positions.                                        *)
(***************************************************************************)
\* positions (all multiples of 50): the corners of a square, as in
\* test_focus_closest_client, and two far apart on the 16-bit plane
Positions ==
    {Vector2D(0, 0), Vector2D(150, 0), Vector2D(0, 150),
     Vector2D(-25000, 0), Vector2D(25000, 0)}
ClientWindows == 1 .. MaxClients
ClientSelectors == {Focused} \cup {Window(w) : w \in ClientWindows}

InitClosest ==
    \E n \in 0 .. MaxClients :
        \E pos \in [1 .. n -> Positions] :
            /\ state = [DefaultState EXCEPT
                            !.root = Root,
                            !.workspaces[1].clients =
                                [i \in 1 .. n |-> Client(i, pos[i], WinSize(i))]]
            /\ config = DefaultConfig
            /\ pc = "calls"
            /\ events = << >>
            /\ commands = << >>
            /\ xserver = [alive |-> {}, mapped |-> {}, destroyed |-> {},
                          grabbed |-> {}, geometry |-> << >>,
                          border |-> << >>, width |-> << >>, focus |-> NoneXid]
            /\ requests = << >>
            /\ last = NoCall
            /\ inputs = 0
            /\ threads = {}
            /\ connections = << >>

NextClosest ==
    \/ Call_remove_client(ClientWindows)
    \/ Call_focus_client(ClientWindows)
    \/ Call_focus_closest_client(ClientSelectors)

SpecClosest == InitClosest /\ [][NextClosest]_vars

(***************************************************************************)
(* The client list on its own: SpecClients adds, removes and focuses up to *)
(* MaxClients clients of the one workspace of a fresh registry.            *)
(***************************************************************************)
Call_add_client_of(windows) ==
    \E window \in windows :
        Call("add_client", << window >>,
             add_client(state, window, WinPos(window), WinSize(window)))

NextClients ==
    \/ Call_add_client_of(ClientWindows)
    \/ Call_remove_client(ClientWindows)
    \/ Call_focus_client(ClientWindows)

SpecClients == InitState /\ [][NextClients]_vars

(***************************************************************************)
(* Renaming workspaces that have clients: SpecRename adds, renames and     *)
(* activates workspaces and adds and focuses clients.                      *)
(***************************************************************************)
NextRename ==
    \/ Call_add_workspace({None}, MaxWorkspaces)
    \/ Call_rename_workspace
    \/ Call_activate_workspace({Index(i) : i \in 0 .. MaxWorkspaces - 1})
    \/ Call_add_client_of({1})
    \/ Call_focus_client({1})

SpecRename == InitState /\ [][NextRename]_vars

(***************************************************************************)
(* The geometry methods: SpecGeometry starts from a fresh registry with    *)
(* the drag anchors a button press left in it, and moves and resizes the   *)
(* clients with the pointer at any of GeoMouse.                            *)
(***************************************************************************)
\* pointer positions (root coordinates)
GeoMouse == {Vector2D(10, 10), Vector2D(200, 20)}
\* positions a window can be at when a button is pressed on it
GeoPositions == {WinPos(w) : w \in Windows}

\* where the pointer was when the button was pressed: one of the pointer
\* positions, so that later pointer positions include it and differ from it
GeoStart == Vector2D(10, 10)

InitGeometry ==
    \E frame \in GeoPositions :
        /\ state = [DefaultState EXCEPT !.root = Root,
                                        !.drag_start_pos = GeoStart,
                                        !.drag_start_frame_pos = frame]
        /\ config = DefaultConfig
        /\ pc = "calls"
        /\ events = << >>
        /\ commands = << >>
        /\ xserver = [alive |-> {}, mapped |-> {}, destroyed |-> {},
                      grabbed |-> {}, geometry |-> << >>,
                      border |-> << >>, width |-> << >>, focus |-> NoneXid]
        /\ requests = << >>
        /\ last = NoCall
        /\ inputs = 0
        /\ threads = {}
        /\ connections = << >>

Call_drag_client ==
    \E window \in Windows, mouse_pos \in GeoMouse :
        Call("drag_client", << window, mouse_pos >>,
             drag_client(state, window, mouse_pos))

Call_drag_resize_client ==
    \E window \in Windows, mouse_pos \in GeoMouse :
        Call("drag_resize_client", << window, mouse_pos >>,
             drag_resize_client(state, window, mouse_pos))

Call_teleport_client ==
    \E window \in Windows, pos \in GeoPositions :
        Call("teleport_client", << window, pos >>,
             teleport_client(state, window, pos))

NextGeometry ==
    \/ Call_add_client
    \/ Call_remove_client(Windows)
    \/ Call_select_client
    \/ Call_focus_client(Windows)
    \/ Call_drag_client
    \/ Call_drag_resize_client
    \/ Call_teleport_client
    \/ Call_activate_workspace({Index(0), Index(1)})

SpecGeometry == InitGeometry /\ [][NextGeometry]_vars

(***************************************************************************)
(* The dispatch loop (src/src/window_manager.rs).                          *)
(*                                                                         *)
(* A handler is an operator from the manager (registry, configuration)     *)
(* and the display server to its outcome [state, config, requests,         *)
(* result]: result is "Ok" (the handler returned Ok and the loop goes on), *)
(* "Err" (it returned an error, which the ? of run() returns from run()),  *)
(* "Panic" (an unwrap of None) or "Break" (Quit).  requests are the        *)
(* protocol requests it sent, in order.                                    *)
(***************************************************************************)
\* a protocol request: MapWindow, UnmapWindow, ConfigureWindow, ...
Request(req, window, value) == [req |-> req, window |-> window, value |-> value]

\* the manager while a handler runs
Wm(s, c, reqs, result) ==
    [state |-> s, config |-> c, requests |-> reqs, result |-> result,
     error |-> "Ok"]

\* the handler whose outcome so far is h ends with the registry's error e:
\* the ? operator returns it from the handler and from run()
Fail(h, e) ==
    [h EXCEPT !.result = IF e = "Panic" THEN "Panic" ELSE "Err", !.error = e]

\* a request's reply or check is an error: the ? operator returns it
ProtocolError(h) == Fail(h, "ProtocolError")

\* conn.send_request on behalf of the handler whose outcome so far is h
Send(h, reqs) == [h EXCEPT !.requests = @ \o reqs]

\* one request for each client of the active workspace, in the map's order
ForEachClient(s, req, value) ==
    [i \in 1 .. Len(active_workspace_clients(s)) |->
        Request(req, active_workspace_clients(s)[i].window, value)]

\* a request with a reply (GetGeometry, GetProperty) or a checked request on
\* window succeeds only while the window exists
Exists(x, window) == window = Root \/ window \in x.alive

\* the windows whose _NET_WM_WINDOW_TYPE holds _NET_WM_WINDOW_TYPE_DOCK
Docks == {3}
\* the windows whose WM_PROTOCOLS holds WM_DELETE_WINDOW
DeleteWindowClients == {1}
AllWindows == Windows \cup Docks

\* focus_window as it would be without its first request, the one that
\* unfocuses the last focused window
focus_window_keeps_last(h, window) ==
    Send(h, << Request("SetInputFocus", window, << >>),
               Request("ChangeWindowAttributes", window,
                       << "BorderPixel", h.config.focused_border_color >>),
               Request("SetInputFocus", window, << >>),
               Request("ConfigureWindow", window, << "StackMode", "Above" >>),
               Request("ChangeProperty", Root,
                       << "_NET_ACTIVE_WINDOW", window >>) >>)

\* WindowManager::focus_window
focus_window(h, window) ==
    Send(h,
         (IF last_focused(h.state) # None
          THEN << Request("ChangeWindowAttributes",
                          unwrap(last_focused(h.state)),
                          << "BorderPixel", h.config.border_color >>) >>
          ELSE << >>)
         \o << Request("SetInputFocus", window, << >>),
               Request("ChangeWindowAttributes", window,
                       << "BorderPixel", h.config.focused_border_color >>),
               Request("SetInputFocus", window, << >>),
               Request("ConfigureWindow", window, << "StackMode", "Above" >>),
               Request("ChangeProperty", Root,
                       << "_NET_ACTIVE_WINDOW", window >>) >>)

\* activate_workspace as it would be without its first loop, the one that
\* unmaps the clients of the active workspace
wm_activate_workspace_keeps_mapped(h, selector) ==
    IF ~active_exists(h.state) THEN Fail(h, "Panic")
    ELSE LET r == activate_workspace(h.state, selector)
         IN IF r.err # "Ok" THEN Fail(h, r.err)
            ELSE LET advertised ==
                         Send([h EXCEPT !.state = r.state],
                              << Request("ChangeProperty", Root,
                                         << "_NET_CURRENT_DESKTOP", r.val >>) >>)
                 IN IF ~active_exists(r.state)
                    THEN Fail(advertised, "Panic")
                    ELSE Send(advertised,
                              ForEachClient(r.state, "MapWindow", << >>))

\* activate_workspace as it would be if it switched the registry first and
\* unmapped afterwards: it unmaps the clients of the new workspace
wm_activate_workspace_switches_first(h, selector) ==
    LET r == activate_workspace(h.state, selector)
    IN IF r.err # "Ok" THEN Fail(h, r.err)
       ELSE IF ~active_exists(r.state) THEN Fail(h, "Panic")
       ELSE Send([h EXCEPT !.state = r.state],
                 ForEachClient(r.state, "UnmapWindow", << >>)
                 \o << Request("ChangeProperty", Root,
                               << "_NET_CURRENT_DESKTOP", r.val >>) >>
                 \o ForEachClient(r.state, "MapWindow", << >>))

\* WindowManager::activate_workspace
wm_activate_workspace(h, selector) ==
    IF ~active_exists(h.state) THEN Fail(h, "Panic")
    ELSE LET unmapped == Send(h, ForEachClient(h.state, "UnmapWindow", << >>))
             r == activate_workspace(h.state, selector)
         IN IF r.err # "Ok" THEN Fail(unmapped, r.err)
            ELSE LET advertised ==
                         Send([unmapped EXCEPT !.state = r.state],
                              << Request("ChangeProperty", Root,
                                         << "_NET_CURRENT_DESKTOP", r.val >>) >>)
                 IN IF ~active_exists(r.state)
                    THEN Fail(advertised, "Panic")
                    ELSE Send(advertised,
                              ForEachClient(r.state, "MapWindow", << >>))

\* WindowManager::refresh_workspaces
refresh_workspaces(h) ==
    Send(h, << Request("ChangeProperty", Root,
                       << "_NET_NUMBER_OF_DESKTOPS",
                          Len(workspaces_names(h.state)) >>),
               Request("ChangeProperty", Root,
                       << "_NET_DESKTOP_NAMES", workspaces_names(h.state) >>) >>)

\* WindowManager::delete_window
delete_window(h, x, window) ==
    IF ~Exists(x, window) THEN ProtocolError(h)
    ELSE IF window \in DeleteWindowClients
    THEN Send(h, << Request("SendEvent", window, << "WM_DELETE_WINDOW" >>) >>)
    ELSE Send(h, << Request("KillClient", window, << >>) >>)

\* WindowManager::handle_map_request_event
handle_map_request_event(h, x, ev) ==
    LET mapped == Send(h, << Request("MapWindow", ev.window, << >>) >>)
    IN IF ~Exists(x, ev.window) THEN ProtocolError(mapped)
       ELSE IF ev.window \in Docks THEN mapped
       ELSE LET geometry == x.geometry[ev.window]
                r == add_client(h.state, ev.window, geometry.pos, geometry.size)
            IN IF r.err # "Ok" THEN Fail(mapped, r.err)
               ELSE Send([mapped EXCEPT !.state = r.state],
                      << Request("ConfigureWindow", ev.window,
                                 << "BorderWidth", h.config.border_width >>),
                         Request("ChangeWindowAttributes", ev.window,
                                 << "BorderPixel", h.config.border_color >>),
                         Request("ChangeSaveSet", ev.window, << "Insert" >>),
                         Request("ReparentWindow", ev.window,
                                 << Root, Vector2D(0, 0) >>),
                         Request("SetInputFocus", ev.window, << >>),
                         Request("GrabButton", ev.window, << "SELECT_BUTTON" >>),
                         Request("AllowEvents", NoneXid, << >>),
                         Request("GrabButton", ev.window, << "DRAG_BUTTON" >>),
                         Request("GrabButton", ev.window, << "RESIZE_BUTTON" >>) >>)

\* WindowManager::handle_button_press_event
handle_button_press_event(h, x, ev) ==
    IF ~Exists(x, ev.window) THEN ProtocolError(h)
    ELSE LET anchored ==
                 [h EXCEPT !.state.drag_start_pos = ev.pos,
                           !.state.drag_start_frame_pos =
                               x.geometry[ev.window].pos]
         IN IF ev.detail # 1 THEN anchored
            ELSE LET r == focus_client(anchored.state, ev.window)
                 IN IF r.err # "Ok" THEN Fail(anchored, r.err)
                    ELSE focus_window([anchored EXCEPT !.state = r.state],
                                      ev.window)

\* WindowManager::handle_motion_notify_event; ev.detail is the button of the
\* state mask held with the modifier ("" when the modifier is not held)
handle_motion_notify_event(h, ev) ==
    IF ev.detail = "" THEN h
    ELSE IF ev.detail = "DRAG_BUTTON_MASK"
    THEN LET r == drag_client(h.state, ev.window, ev.pos)
         IN IF r.err # "Ok" THEN Fail(h, r.err)
            ELSE Send([h EXCEPT !.state = r.state],
                      << Request("ConfigureWindow", ev.window,
                                 << "XY", r.val.pos >>) >>)
    ELSE IF ev.detail = "RESIZE_BUTTON_MASK"
    THEN LET r == drag_resize_client(h.state, ev.window, ev.pos)
         IN IF r.err # "Ok" THEN Fail(h, r.err)
            ELSE Send([h EXCEPT !.state = r.state],
                      << Request("ConfigureWindow", ev.window,
                                 << "WidthHeight", r.val.size >>) >>)
    ELSE h

\* WindowManager::handle_configure_request_event
handle_configure_request_event(h, x, ev) ==
    IF ~Exists(x, ev.window) THEN ProtocolError(h)
    ELSE IF ev.window \in Docks THEN h
    ELSE Send(h, << Request("ConfigureWindow", ev.window,
                            << "Geometry", ev.pos, ev.data,
                               "BorderWidth", h.config.border_width >>) >>)

\* WindowManager::handle_destroy_notify_event
handle_destroy_notify_event(h, ev) ==
    LET r == remove_client(h.state, ev.window)
    IN IF r.err = "Panic" THEN Fail(h, "Panic")
       ELSE [h EXCEPT !.state = r.state, !.error = r.err]

\* the ClientMessage arm of run(); ev.detail is the message's type atom and
\* ev.data the first word of its Data32
handle_client_message(h, ev) ==
    IF ev.detail = "_NET_CURRENT_DESKTOP"
    THEN wm_activate_workspace(h, Index(ev.data))
    ELSE h

\* the Command::FocusClosest arm of run()
command_focus_closest(h, cmd, overflow_checks) ==
    LET r == focus_closest_client(h.state, cmd.selector, cmd.direction,
                                  overflow_checks)
    IN IF r.err = "Panic" THEN Fail(h, "Panic")
       ELSE IF r.err # "Ok" THEN [h EXCEPT !.error = r.err]
       ELSE IF r.val = None THEN h
       ELSE focus_window([h EXCEPT !.state = r.state], unwrap(r.val).window)

\* the Command::Close arm of run()
command_close(h, x, cmd) ==
    LET r == select_client(h.state, cmd.selector)
    IN IF r.err = "Panic" THEN Fail(h, "Panic")
       ELSE IF r.err # "Ok" THEN [h EXCEPT !.error = r.err]
       ELSE delete_window(h, x, r.val.window)

\* the Command::AddWorkspace arm of run()
command_add_workspace(h, cmd) ==
    LET r == add_workspace(h.state, cmd.name)
    IN IF r.err # "Ok" THEN Fail(h, r.err)
       ELSE refresh_workspaces([h EXCEPT !.state = r.state])

\* the Command::RenameWorkspace arm of run()
command_rename_workspace(h, cmd) ==
    LET r == rename_workspace(h.state, cmd.selector, unwrap(cmd.name))
    IN IF r.err # "Ok" THEN Fail(h, r.err)
       ELSE refresh_workspaces([h EXCEPT !.state = r.state])

\* the Command::SelectWorkspace arm of run()
command_select_workspace(h, cmd) == wm_activate_workspace(h, cmd.selector)

\* the Command::SetBorderWidth arm of run()
command_set_border_width(h, cmd) ==
    LET c == [h EXCEPT !.config.border_width = cmd.value]
    IN IF ~active_exists(h.state) THEN Fail(c, "Panic")
       ELSE Send(c, ForEachClient(h.state, "ConfigureWindow",
                                  << "BorderWidth", cmd.value >>))

\* the requests of seq, in order, except those for the window skip
RECURSIVE SelectReq(_, _)
SelectReq(seq, skip) ==
    IF seq = << >> THEN << >>
    ELSE IF Some(Head(seq).window) = skip THEN SelectReq(Tail(seq), skip)
    ELSE << Head(seq) >> \o SelectReq(Tail(seq), skip)

\* the SetBorderColor arm as it would be without its test for the focused
\* window
command_set_border_color_all(h, cmd) ==
    LET c == [h EXCEPT !.config.border_color = cmd.value]
    IN IF ~active_exists(h.state) THEN Fail(c, "Panic")
       ELSE Send(c, ForEachClient(h.state, "ChangeWindowAttributes",
                                  << "BorderPixel", cmd.value >>))

\* the Command::SetBorderColor arm of run()
command_set_border_color(h, cmd) ==
    LET c == [h EXCEPT !.config.border_color = cmd.value]
    IN IF ~active_exists(h.state) THEN Fail(c, "Panic")
       ELSE Send(c, SelectReq(ForEachClient(h.state, "ChangeWindowAttributes",
                                            << "BorderPixel", cmd.value >>),
                              focused(h.state)))

\* the Command::SetFocusedBorderColor arm of run()
command_set_focused_border_color(h, cmd) ==
    LET c == [h EXCEPT !.config.focused_border_color = cmd.value]
    IN IF focused(h.state) = None THEN c
       ELSE Send(c, << Request("ChangeWindowAttributes",
                               unwrap(focused(h.state)),
                               << "BorderPixel", cmd.value >>) >>)

(***************************************************************************)
(* The display server, as far as the manager depends on it: the windows    *)
(* that exist, those mapped, those with the manager's button grabs, each   *)
(* window's geometry and border, and the window with the input focus.      *)
(***************************************************************************)
\* conn.generate_id() for the manager's child window
Child == 8

InitServer ==
    [alive |-> {}, mapped |-> {}, destroyed |-> {}, grabbed |-> {},
     border |-> [w \in AllWindows \cup {Root} |-> 0],
     width |-> [w \in AllWindows \cup {Root} |-> 0],
     focus |-> NoneXid,
     geometry |-> [w \in AllWindows \cup {Root} |->
                      IF w = Root
                      THEN [pos |-> Vector2D(0, 0), size |-> Vector2D(800, 600)]
                      ELSE [pos |-> WinPos(w), size |-> WinSize(w)]]]

\* the effect of one request on the server; a request for a window that no
\* longer exists has none
ApplyRequest(x, r) ==
    IF r.req = "SetInputFocus" /\ Exists(x, r.window)
    THEN [x EXCEPT !.focus = r.window]
    ELSE IF r.window \notin x.alive THEN x
    ELSE CASE r.req = "MapWindow" -> [x EXCEPT !.mapped = @ \cup {r.window}]
           [] r.req = "UnmapWindow" -> [x EXCEPT !.mapped = @ \ {r.window}]
           [] r.req = "GrabButton" -> [x EXCEPT !.grabbed = @ \cup {r.window}]
           [] r.req = "ChangeWindowAttributes" /\ r.value[1] = "BorderPixel" ->
                  [x EXCEPT !.border[r.window] = r.value[2]]
           [] r.req = "ReparentWindow" ->
                  [x EXCEPT !.geometry[r.window].pos = r.value[2]]
           [] r.req = "ConfigureWindow" /\ r.value[1] = "XY" ->
                  [x EXCEPT !.geometry[r.window].pos = r.value[2]]
           [] r.req = "ConfigureWindow" /\ r.value[1] = "WidthHeight" ->
                  [x EXCEPT !.geometry[r.window].size = r.value[2]]
           [] r.req = "ConfigureWindow" /\ r.value[1] = "BorderWidth" ->
                  [x EXCEPT !.width[r.window] = r.value[2]]
           [] r.req = "ConfigureWindow" /\ r.value[1] = "Geometry" ->
                  [x EXCEPT !.geometry[r.window] =
                                [pos |-> r.value[2], size |-> r.value[3]],
                            !.width[r.window] = r.value[5]]
           [] OTHER -> x

\* conn.flush(): the server carries out the requests in order
RECURSIVE Flush(_, _)
Flush(x, reqs) ==
    IF reqs = << >> THEN x
    ELSE Flush(ApplyRequest(x, Head(reqs)), Tail(reqs))

\* x::Event, as the reader thread forwards it
Event(type, window, detail, pos, data) ==
    [type |-> type, window |-> window, detail |-> detail, pos |-> pos,
     data |-> data]

\* the inputs of the dispatch loop
MousePositions == {Vector2D(10, 10)}
ConfigurePositions == {Vector2D(0, 0)}
Buttons == {1, 3}
ButtonMasks == {"", "DRAG_BUTTON_MASK", "RESIZE_BUTTON_MASK"}
MessageTypes == {"_NET_CURRENT_DESKTOP", "WM_PROTOCOLS"}
BorderWidths == {2}
Colors == {255}
\* the names and selectors of the workspace commands
CmdNameOpts == {None, Some("0")}
CmdNames == {"0"}
CmdSelectors == {Index(i) : i \in 0 .. MaxWorkspaces}
                    \cup {Name("0"), Name("1")}

\* Command, as handle_client deserializes it
Command(cmd, selector, direction, name, value) ==
    [cmd |-> cmd, selector |-> selector, direction |-> direction,
     name |-> name, value |-> value]

Init ==
    /\ state = DefaultState
    /\ config = DefaultConfig
    /\ pc = "start"
    /\ events = << >>
    /\ commands = << >>
    /\ xserver = InitServer
    /\ requests = << >>
    /\ last = NoCall
    /\ inputs = 0
    /\ threads = {}
    /\ connections = << >>

\* start() of main.rs, up to wm.run(): the IPC thread is spawned, and binds
\* the socket, before the manager is constructed and run
Start ==
    /\ pc = "start"
    /\ pc' = "setup"
    /\ threads' = threads \cup {"handle_ipc"}
    /\ last' = [op |-> "start", args |-> << >>, err |-> "Ok"]
    /\ UNCHANGED << state, config, events, commands, xserver, requests,
                    inputs, connections >>

\* the Setup part of run(), up to the Serve loop: another_wm is whether the
\* server rejects the root event mask, autostart_ok whether the autostart
\* program could be spawned
Setup ==
    \E another_wm \in BOOLEAN, autostart_ok \in BOOLEAN :
        /\ pc = "setup"
        /\ LET rooted == [state EXCEPT !.root = Root]
               h == Wm([rooted EXCEPT !.child = Child], config,
                       << Request("ChangeProperty", Root, << "_NET_SUPPORTED" >>),
                          Request("CreateWindow", Child, << Root >>),
                          Request("ChangeProperty", Child,
                                  << "_NET_WM_NAME", "toniowm" >>),
                          Request("ChangeProperty", Child,
                                  << "_NET_SUPPORTING_WM_CHECK", Child >>),
                          Request("ChangeProperty", Root,
                                  << "_NET_SUPPORTING_WM_CHECK", Child >>),
                          Request("ChangeProperty", Root,
                                  << "_NET_ACTIVE_WINDOW", Child >>),
                          Request("ChangeProperty", Root,
                                  << "_NET_CURRENT_DESKTOP", 0 >>) >>, "Ok")
           IN IF another_wm
              THEN /\ state' = rooted
                   /\ requests' = << >>
                   /\ pc' = "failed"
              ELSE IF ~autostart_ok
              THEN /\ state' = h.state
                   /\ requests' = h.requests
                   /\ pc' = "failed"
              ELSE /\ state' = h.state
                   /\ requests' = refresh_workspaces(h).requests
                   /\ pc' = "serve"
        /\ threads' = IF another_wm \/ ~autostart_ok THEN threads
                       ELSE threads \cup {"reader"}
        /\ last' = [op |-> "Setup", args |-> << >>,
                    err |-> IF another_wm THEN "AnotherWindowManager"
                            ELSE IF ~autostart_ok THEN "AutostartFailed"
                            ELSE "Ok"]
        /\ UNCHANGED << config, events, commands, xserver, inputs,
                        connections >>

(***************************************************************************)
(* The environment: client programs and the user, through the server.      *)
(* The server appends the events to the channel the reader thread feeds.   *)
(***************************************************************************)
Running == pc \in {"serve", "quit"}

Deliver(ev) ==
    /\ Running
    /\ Len(events) < MaxEvents
    /\ inputs < MaxInputs
    /\ events' = Append(events, ev)
    /\ inputs' = inputs + 1
    /\ UNCHANGED << state, config, pc, commands, requests, last, threads,
                    connections >>

\* a client program maps its (new or unmapped) window: the server redirects
\* the request to the manager
XMapWindow ==
    \E w \in AllWindows :
        /\ w \notin xserver.destroyed /\ w \notin xserver.mapped
        /\ xserver' = [xserver EXCEPT !.alive = @ \cup {w}]
        /\ Deliver(Event("MapRequest", w, 0, Vector2D(0, 0), 0))

\* a window is destroyed (by its client, or with its client's connection)
XDestroyWindow ==
    \E w \in xserver.alive :
        /\ xserver' = [xserver EXCEPT !.alive = @ \ {w}, !.mapped = @ \ {w},
                                      !.grabbed = @ \ {w},
                                      !.destroyed = @ \cup {w}]
        /\ Deliver(Event("DestroyNotify", w, 0, Vector2D(0, 0), 0))

\* the user presses a grabbed button on a managed window, or on the root
XButtonPress ==
    \E w \in (xserver.mapped \cap xserver.grabbed) \cup {Root},
       button \in Buttons, mouse \in MousePositions :
        /\ Deliver(Event("ButtonPress", w, button, mouse, 0))
        /\ UNCHANGED xserver

\* the user moves the pointer during a button grab
XMotionNotify ==
    \E w \in xserver.mapped \cap xserver.grabbed,
       mask \in ButtonMasks, mouse \in MousePositions :
        /\ Deliver(Event("MotionNotify", w, mask, mouse, 0))
        /\ UNCHANGED xserver

\* a client program asks to move or resize its window
XConfigureWindow ==
    \E w \in xserver.alive, pos \in ConfigurePositions :
        /\ Deliver(Event("ConfigureRequest", w, 0, pos, WinSize(w)))
        /\ UNCHANGED xserver

\* a pager (or any client) sends a ClientMessage to the root
XClientMessage ==
    \E type \in MessageTypes, index \in 0 .. MaxWorkspaces :
        /\ type = "_NET_CURRENT_DESKTOP" \/ index = 0
        /\ Deliver(Event("ClientMessage", Root, type, Vector2D(0, 0), index))
        /\ UNCHANGED xserver

\* an IPC client sends a command: dispatch_command writes it to a fresh
\* connection and the connection's worker forwards it to the command channel
SendCommand(cmd) ==
    /\ Running
    /\ Len(commands) < MaxCommands
    /\ inputs < MaxInputs
    /\ commands' = Append(commands, cmd)
    /\ inputs' = inputs + 1
    /\ UNCHANGED << state, config, pc, events, xserver, requests, last,
                    threads, connections >>

ClientCommands ==
    {Command("Quit", None, "", None, 0)}
    \cup {Command("FocusClosest", selector, direction, None, 0) :
              selector \in WinSelectors, direction \in Directions}
    \cup {Command("Close", selector, "", None, 0) : selector \in WinSelectors}
    \cup {Command("AddWorkspace", None, "", name, 0) : name \in CmdNameOpts}
    \cup {Command("RenameWorkspace", selector, "", Some(name), 0) :
              selector \in CmdSelectors, name \in CmdNames}
    \cup {Command("SelectWorkspace", selector, "", None, 0) :
              selector \in CmdSelectors}
    \cup {Command("SetBorderWidth", None, "", None, width) :
              width \in BorderWidths}
    \cup {Command(cmd, None, "", None, color) :
              cmd \in {"SetBorderColor", "SetFocusedBorderColor"},
              color \in Colors}

\* toniowm client <command>; at most MaxWorkspaces workspaces are asked for
Dispatch ==
    \E cmd \in ClientCommands :
        /\ cmd.cmd = "AddWorkspace" =>
               Len(state.workspaces)
                   + Cardinality({i \in 1 .. Len(commands) :
                                     commands[i].cmd = "AddWorkspace"})
                   < MaxWorkspaces
        /\ SendCommand(cmd)

(***************************************************************************)
(* The Serve loop of run(): one action for each arm of the select, which   *)
(* takes either channel's next input when both are ready.                  *)
(***************************************************************************)
\* the end of one iteration: the handler's outcome h
Finish(op, h) ==
    /\ state' = h.state
    /\ config' = h.config
    /\ requests' = h.requests
    /\ pc' = CASE h.result = "Ok" -> "serve"
               [] h.result = "Err" -> "failed"
               [] h.result = "Panic" -> "panicked"
               [] h.result = "Break" -> "quit"
    /\ xserver' = IF h.result = "Ok" THEN Flush(xserver, h.requests)
                  ELSE xserver
    /\ last' = [op |-> op, args |-> << >>, err |-> h.error]
    /\ UNCHANGED << inputs, threads, connections >>

Begin == Wm(state, config, << >>, "Ok")

\* recv(receiver) -> event
OnEvent(type) ==
    /\ pc = "serve"
    /\ events # << >>
    /\ Head(events).type = type
    /\ events' = Tail(events)
    /\ UNCHANGED commands

\* the command arm as it would be if the loop took a command only when no
\* event is ready
OnCommand_after_events(cmd) ==
    /\ pc = "serve"
    /\ events = << >>
    /\ commands # << >>
    /\ Head(commands).cmd = cmd
    /\ commands' = Tail(commands)
    /\ UNCHANGED events

\* recv(self.client_receiver) -> message
OnCommand(cmd) ==
    /\ pc = "serve"
    /\ commands # << >>
    /\ Head(commands).cmd = cmd
    /\ commands' = Tail(commands)
    /\ UNCHANGED events

ButtonPress ==
    /\ OnEvent("ButtonPress")
    /\ Finish("ButtonPress",
              handle_button_press_event(Begin, xserver, Head(events)))

MotionNotify ==
    /\ OnEvent("MotionNotify")
    /\ Finish("MotionNotify", handle_motion_notify_event(Begin, Head(events)))

ConfigureRequest ==
    /\ OnEvent("ConfigureRequest")
    /\ Finish("ConfigureRequest",
              handle_configure_request_event(Begin, xserver, Head(events)))

MapRequest ==
    /\ OnEvent("MapRequest")
    /\ Finish("MapRequest",
              handle_map_request_event(Begin, xserver, Head(events)))

DestroyNotify ==
    /\ OnEvent("DestroyNotify")
    /\ Finish("DestroyNotify",
              handle_destroy_notify_event(Begin, Head(events)))

ClientMessage ==
    /\ OnEvent("ClientMessage")
    /\ Finish("ClientMessage", handle_client_message(Begin, Head(events)))

\* the Quit arm as it would be without its break
Quit_goes_on ==
    /\ OnCommand("Quit")
    /\ Finish("Quit", Begin)

Quit ==
    /\ OnCommand("Quit")
    /\ Finish("Quit", [Begin EXCEPT !.result = "Break"])

FocusClosest ==
    \E overflow_checks \in BOOLEAN :
        /\ OnCommand("FocusClosest")
        /\ Finish("FocusClosest",
                  command_focus_closest(Begin, Head(commands),
                                        overflow_checks))

Close ==
    /\ OnCommand("Close")
    /\ Finish("Close", command_close(Begin, xserver, Head(commands)))

AddWorkspace ==
    /\ OnCommand("AddWorkspace")
    /\ Finish("AddWorkspace", command_add_workspace(Begin, Head(commands)))

RenameWorkspace ==
    /\ OnCommand("RenameWorkspace")
    /\ Finish("RenameWorkspace",
              command_rename_workspace(Begin, Head(commands)))

SelectWorkspace ==
    /\ OnCommand("SelectWorkspace")
    /\ Finish("SelectWorkspace",
              command_select_workspace(Begin, Head(commands)))

SetBorderWidth ==
    /\ OnCommand("SetBorderWidth")
    /\ Finish("SetBorderWidth",
              command_set_border_width(Begin, Head(commands)))

SetBorderColor ==
    /\ OnCommand("SetBorderColor")
    /\ Finish("SetBorderColor",
              command_set_border_color(Begin, Head(commands)))

SetFocusedBorderColor ==
    /\ OnCommand("SetFocusedBorderColor")
    /\ Finish("SetFocusedBorderColor",
              command_set_focused_border_color(Begin, Head(commands)))

Next ==
    \/ Start
    \/ Setup
    \/ XMapWindow
    \/ XDestroyWindow
    \/ XButtonPress
    \/ XMotionNotify
    \/ XConfigureWindow
    \/ XClientMessage
    \/ Dispatch
    \/ ButtonPress
    \/ MotionNotify
    \/ ConfigureRequest
    \/ MapRequest
    \/ DestroyNotify
    \/ ClientMessage
    \/ Quit
    \/ FocusClosest
    \/ Close
    \/ AddWorkspace
    \/ RenameWorkspace
    \/ SelectWorkspace
    \/ SetBorderWidth
    \/ SetBorderColor
    \/ SetFocusedBorderColor

Spec == Init /\ [][Next]_vars

(***************************************************************************)
(* Parts of the manager on their own: the same loop, fed only the inputs   *)
(* of one concern.                                                         *)
(***************************************************************************)
\* toniowm client <command>, for the commands of cmds
DispatchOf(cmds) ==
    \E cmd \in cmds :
        /\ cmd.cmd = "AddWorkspace" =>
               Len(state.workspaces)
                   + Cardinality({i \in 1 .. Len(commands) :
                                     commands[i].cmd = "AddWorkspace"})
                   < MaxWorkspaces
        /\ SendCommand(cmd)

\* workspaces: windows are mapped and destroyed, workspaces added and
\* activated, by command and by a pager's ClientMessage
NextSwitch ==
    \/ Start
    \/ Setup
    \/ XMapWindow
    \/ XDestroyWindow
    \/ XClientMessage
    \/ DispatchOf({Command("AddWorkspace", None, "", None, 0)}
                      \cup {Command("SelectWorkspace", selector, "", None, 0) :
                                selector \in CmdSelectors})
    \/ MapRequest
    \/ DestroyNotify
    \/ ClientMessage
    \/ AddWorkspace
    \/ SelectWorkspace

SpecSwitch == Init /\ [][NextSwitch]_vars

\* borders and focus: windows are mapped, configured and clicked, workspaces
\* added and activated, and the border and focus commands applied
NextBorders ==
    \/ Start
    \/ Setup
    \/ XMapWindow
    \/ XButtonPress
    \/ XConfigureWindow
    \/ DispatchOf({Command("SetBorderWidth", None, "", None, width) :
                       width \in BorderWidths}
                      \cup {Command(cmd, None, "", None, color) :
                                cmd \in {"SetBorderColor", "SetFocusedBorderColor"},
                                color \in Colors}
                      \cup {Command("FocusClosest", Focused, direction, None, 0) :
                                direction \in Directions}
                      \cup {Command("AddWorkspace", None, "", None, 0)}
                      \cup {Command("SelectWorkspace", Index(i), "", None, 0) :
                                i \in 0 .. MaxWorkspaces - 1})
    \/ MapRequest
    \/ ButtonPress
    \/ ConfigureRequest
    \/ AddWorkspace
    \/ SelectWorkspace
    \/ SetBorderWidth
    \/ SetBorderColor
    \/ SetFocusedBorderColor
    \/ FocusClosest

SpecBorders == Init /\ [][NextBorders]_vars

\* toniowm client <command>, for the commands of cmds, any number of times
DispatchFree(cmds) ==
    \E cmd \in cmds :
        /\ Running
        /\ Len(commands) < MaxCommands
        /\ cmd.cmd = "AddWorkspace" =>
               Len(state.workspaces)
                   + Cardinality({i \in 1 .. Len(commands) :
                                     commands[i].cmd = "AddWorkspace"})
                   < MaxWorkspaces
        /\ commands' = Append(commands, cmd)
        /\ UNCHANGED << state, config, pc, events, xserver, requests, last,
                        inputs, threads, connections >>

\* windows that come and go while workspaces are switched: windows are
\* mapped and destroyed, workspaces added and activated and the border
\* width set
NextDestroy ==
    \/ Start
    \/ Setup
    \/ XMapWindow
    \/ XDestroyWindow
    \/ DispatchFree({Command("AddWorkspace", None, "", None, 0)}
                        \cup {Command("SelectWorkspace", Index(i), "", None, 0) :
                                  i \in 0 .. MaxWorkspaces - 1}
                        \cup {Command("SetBorderWidth", None, "", None, width) :
                                  width \in BorderWidths})
    \/ MapRequest
    \/ DestroyNotify
    \/ AddWorkspace
    \/ SelectWorkspace
    \/ SetBorderWidth

SpecDestroy == Init /\ [][NextDestroy]_vars

(***************************************************************************)
(* The IPC endpoint (src/src/client.rs).  The listener thread accepts each *)
(* connection and spawns a worker thread for it; a connection is           *)
(* [body, closed]: what its client wrote, and whether the client has       *)
(* closed it.  A body is [text, command]: the text is "json" when it is    *)
(* serde_json::to_string of command.                                       *)
(***************************************************************************)
\* what the n-th client can write: a command (each width is written once, so
\* that a command can be told from the others), or something else
Bodies(n) ==
    {[text |-> "json", command |-> Command("SetBorderWidth", None, "", None, n)],
     [text |-> "json", command |-> Command("Quit", None, "", None, 0)],
     [text |-> "{\"Quit\"", command |-> None],
     [text |-> "not utf-8", command |-> None]}

\* buf.read_to_string(&mut data) followed by serde_json::from_str(&data)
from_str(body) ==
    IF body.text = "not utf-8" THEN None
    ELSE IF body.text = "json" THEN Some(body.command)
    ELSE None

\* handle_client as it would be if the error arm fell back to a command
handle_client_falls_back(body) ==
    IF from_str(body) = None THEN << Command("Quit", None, "", None, 0) >>
    ELSE << unwrap(from_str(body)) >>

\* handle_client: the commands the worker sends on the command channel
handle_client(body) ==
    IF from_str(body) = None THEN << >>
    ELSE << unwrap(from_str(body)) >>

\* the handle_ipc thread removes the socket file and binds a new listener
\* on its path, while the process lives
Bind ==
    /\ "handle_ipc" \in threads
    /\ "listener" \notin threads
    /\ pc \in {"setup", "serve"}
    /\ threads' = threads \cup {"listener"}
    /\ UNCHANGED << state, config, pc, events, commands, xserver, requests,
                    last, inputs, connections >>

\* a client connects and writes: the listener accepts and spawns the worker
Connect ==
    \E body \in Bodies(inputs + 1) :
        /\ "listener" \in threads
        /\ inputs < MaxInputs
        /\ Len(connections) < MaxConnections
        /\ connections' = Append(connections, [body |-> body, closed |-> FALSE])
        /\ inputs' = inputs + 1
        /\ UNCHANGED << state, config, pc, events, commands, xserver,
                        requests, last, threads >>

\* a client closes its connection
Hangup ==
    \E i \in 1 .. Len(connections) :
        /\ ~connections[i].closed
        /\ connections' = [connections EXCEPT ![i].closed = TRUE]
        /\ UNCHANGED << state, config, pc, events, commands, xserver,
                        requests, last, inputs, threads >>

\* the worker of a closed connection reads to the end, sends what
\* handle_client makes of the body, and exits
Worker ==
    \E i \in 1 .. Len(connections) :
        /\ connections[i].closed
        /\ Len(commands) + Len(handle_client(connections[i].body)) <= MaxCommands
        /\ commands' = commands \o handle_client(connections[i].body)
        /\ connections' = SubSeq(connections, 1, i - 1)
                              \o SubSeq(connections, i + 1, Len(connections))
        /\ UNCHANGED << state, config, pc, events, xserver, requests, last,
                        inputs, threads >>

NextIpc ==
    \/ Start
    \/ Setup
    \/ Bind
    \/ Connect
    \/ Hangup
    \/ Worker
    \/ XButtonPress
    \/ ButtonPress
    \/ SetBorderWidth
    \/ Quit

SpecIpc == Init /\ [][NextIpc]_vars

\* clients run one after the other, as the lines of a script do:
\* dispatch_command connects, writes and returns, which closes the
\* connection, before the next client connects
NextSequential ==
    \/ Start
    \/ Setup
    \/ Bind
    \/ ((\A i \in 1 .. Len(connections) : connections[i].closed) /\ Connect)
    \/ Hangup
    \/ Worker
    \/ SetBorderWidth
    \/ Quit

SpecSequential == Init /\ [][NextSequential]_vars

\* the worker threads and the main thread are scheduled fairly, and the
\* select of the Serve loop does not pass over a ready command for ever
FairSpecIpc ==
    /\ SpecIpc
    /\ WF_vars(Worker)
    /\ WF_vars(Start \/ Setup \/ SetBorderWidth \/ Quit)


(***************************************************************************)
(* Properties.                                                             *)
(***************************************************************************)
\* the places (workspace, position) at which the registry s records window
Records(s, window) ==
    {<< i, j >> \in (1 .. Len(s.workspaces)) \X (1 .. 2 * MaxInputs) :
         /\ j <= Len(s.workspaces[i].clients)
         /\ s.workspaces[i].clients[j].window = window}

\* window is in the client map of the active workspace of s
InActive(s, window) ==
    /\ active_exists(s)
    /\ client_index(active_workspace_clients(s), window) # 0

\* the 0-based indices of the workspaces a selector denotes
Denoted(s, selector) ==
    {i \in 0 .. Len(s.workspaces) - 1 :
         IF selector.kind = "Index" THEN i = selector.index
         ELSE s.workspaces[i + 1].name = selector.name}

RegistryErrors ==
    {"WorkspaceAlreadyExists", "WorkspaceNotFound", "ClientNotFound",
     "ClientAlreadyExists"}
CommandOps ==
    {"FocusClosest", "Close", "AddWorkspace", "RenameWorkspace",
     "SelectWorkspace", "SetBorderWidth", "SetBorderColor",
     "SetFocusedBorderColor"}
EventOps ==
    {"ButtonPress", "MotionNotify", "ConfigureRequest", "MapRequest",
     "DestroyNotify", "ClientMessage"}

\* this step of the Serve loop takes the event at the head of the channel
Handles(type) ==
    /\ pc = "serve"
    /\ events # << >>
    /\ events' = Tail(events)
    /\ Head(events).type = type

\* this step of the Serve loop takes the command at the head of the channel
Applies(cmd) ==
    /\ pc = "serve"
    /\ commands # << >>
    /\ commands' = Tail(commands)
    /\ Head(commands).cmd = cmd

\* C1: in every reachable state of the manager, whatever workspace commands
\* and current-desktop ClientMessages it was given, active_workspace is a
\* valid index into the workspace list.
C1_ActiveWorkspaceValid ==
    state.active_workspace \in 0 .. Len(state.workspaces) - 1

\* C2: a call activate_workspace(selector) whose selector denotes no
\* workspace (no workspace has the name, or the index is not below the number
\* of workspaces) returns WorkspaceNotFound and leaves active_workspace as it
\* was; one whose selector denotes a workspace returns Ok and sets
\* active_workspace to that workspace's index.
C2_ActivateWorkspaceResolves ==
    [][(pc = "calls" /\ last'.op = "activate_workspace") =>
          IF Denoted(state, last'.args[1]) = {}
          THEN /\ last'.err = "WorkspaceNotFound"
               /\ state'.active_workspace = state.active_workspace
          ELSE /\ last'.err = "Ok"
               /\ state'.active_workspace \in Denoted(state, last'.args[1])]_vars

\* C3: in every reachable state of the manager every window is recorded in
\* at most one workspace's client map, and at most once there.
C3_WindowInOneWorkspace ==
    \A w \in AllWindows : Cardinality(Records(state, w)) <= 1

\* C4, as claimed: in every reachable state of the registry focused is None
\* or a window of the active workspace's client map.
C4_FocusedInActive ==
    state.focused = None \/ InActive(state, unwrap(state.focused))

\* C4, amended: in every reachable state of the registry focused is None or
\* a window recorded in some workspace's client map, and every call that
\* leaves active_workspace as it is keeps focused None or in the active
\* workspace's client map: only a change of the active workspace leaves
\* focused referring to a window of a workspace that is not active.
C4_FocusedManaged ==
    /\ [](state.focused = None \/ Records(state, unwrap(state.focused)) # {})
    /\ [][(C4_FocusedInActive
             /\ state'.active_workspace = state.active_workspace)
          => (state'.focused = None
                \/ InActive(state', unwrap(state'.focused)))]_vars

\* C4's case: activate_workspace has just moved to another workspace while a
\* window of the workspace left behind is focused
C4_FocusLeftBehind ==
    /\ last.op = "activate_workspace"
    /\ last.err = "Ok"
    /\ active_exists(state)
    /\ state.focused # None
    /\ ~InActive(state, unwrap(state.focused))
    /\ Records(state, unwrap(state.focused)) # {}

\* C5: a successful remove_client(w) never leaves last_focused referring to
\* w, the window it removed (as it must not, if last_focused is to stay None
\* or a window of the active workspace's client map).
C5_LastFocusedNotRemoved ==
    [][(pc = "calls" /\ last'.op = "remove_client" /\ last'.err = "Ok")
          => state'.last_focused # Some(last'.args[1])]_vars

\* C6: in every reachable state of the registry the names of the workspaces
\* are pairwise distinct.
C6_WorkspaceNamesDistinct ==
    \A i, j \in 1 .. Len(state.workspaces) :
        state.workspaces[i].name = state.workspaces[j].name => i = j

\* C7: when applying a remote command ends with a registry error, the Serve
\* loop goes on serving: run() does not return.
C7_CommandErrorsNotFatal ==
    [][(pc = "serve" /\ last'.op \in CommandOps
          /\ last'.err \in RegistryErrors) => pc' = "serve"]_vars

\* C8: when handling a protocol event ends with ClientNotFound or
\* ClientAlreadyExists, the Serve loop goes on serving: run() does not
\* return.
C8_EventRacesNotFatal ==
    [][(pc = "serve" /\ last'.op \in EventOps
          /\ last'.err \in {"ClientNotFound", "ClientAlreadyExists"})
          => pc' = "serve"]_vars

\* C9: once the Serve loop has handled the DestroyNotify of a window the
\* registry records, no workspace's client map holds that window.
C9_DestroyedWindowForgotten ==
    [][(Handles("DestroyNotify")
          /\ Records(state, Head(events).window) # {})
          => Records(state', Head(events).window) = {}]_vars

\* C10: for a window w the server has destroyed, the Serve loop goes on
\* serving after it applies a Close command that selects w, whether or not
\* it has handled DestroyNotify(w) yet, and after it handles
\* DestroyNotify(w); once it has handled DestroyNotify(w) the registry no
\* longer records w.
C10_CloseAndDestroyCommute ==
    [][\A w \in xserver.destroyed :
          /\ (Applies("Close") /\ Head(commands).selector = Window(w))
                 => pc' = "serve"
          /\ (Handles("DestroyNotify") /\ Head(events).window = w)
                 => (pc' = "serve" /\ Records(state', w) = {})]_vars

\* the names of the workspaces of s, in the map's order
Names(s) == [i \in 1 .. Len(s.workspaces) |-> s.workspaces[i].name]

\* the names default naming gives n workspaces, counting from first
OrdinalNames(n, first) == [i \in 1 .. n |-> to_string(first + i - 1)]

\* this step is a call add_workspace(None)
AddsDefault == pc = "calls" /\ last'.op = "add_workspace" /\ last'.args = << None >>

\* C13, as claimed: a fresh registry holds exactly one workspace, named "1",
\* and add_workspace(None) on workspaces named "1" .. "n" succeeds and gives
\* workspaces named "1" .. "n+1", in that order.
C13_OneBasedNames ==
    /\ [](last = NoCall => Names(state) = << "1" >>)
    /\ [][(AddsDefault
             /\ Names(state) = OrdinalNames(Len(state.workspaces), 1))
          => /\ last'.err = "Ok"
             /\ Names(state') = OrdinalNames(Len(state.workspaces) + 1, 1)]_vars

\* C13, amended: a fresh registry holds exactly one workspace, named "0", and
\* add_workspace(None) on workspaces named "0" .. "n-1" succeeds and gives
\* workspaces named "0" .. "n", in that order: the default name is the index
\* of the new workspace, and two calls on a fresh registry give "0", "1",
\* "2".
C13_IndexNames ==
    /\ [](last = NoCall => Names(state) = << "0" >>)
    /\ [][(AddsDefault
             /\ Names(state) = OrdinalNames(Len(state.workspaces), 0))
          => /\ last'.err = "Ok"
             /\ Names(state') = OrdinalNames(Len(state.workspaces) + 1, 0)]_vars

\* C13's case: add_workspace(None) has just made the third workspace of a
\* registry that was fresh two calls of it ago
C13_ThreeDefaultWorkspaces ==
    /\ last = [op |-> "add_workspace", args |-> << None >>, err |-> "Ok"]
    /\ Names(state) = << "0", "1", "2" >>
    /\ \A i \in 1 .. 3 : state.workspaces[i].hkey = state.workspaces[i].name

\* C14: a call add_workspace(name) whose resolved name is the name of a
\* workspace returns WorkspaceAlreadyExists and leaves the registry as it
\* was; any other appends one empty workspace of that name after the
\* existing ones, which keep their places, names and clients, and leaves
\* active_workspace as it was.  (Stated of registries of two or more
\* workspaces, where every lookup goes through the map's hash table.)
C14_AddWorkspaceChecksName ==
    [][(pc = "calls" /\ last'.op = "add_workspace"
          /\ Len(state.workspaces) >= 2)
          => LET name == last'.args[1]
                 nm == IF name # None THEN unwrap(name)
                       ELSE to_string(Len(state.workspaces))
             IN IF \E i \in 1 .. Len(state.workspaces) :
                       state.workspaces[i].name = nm
                THEN last'.err = "WorkspaceAlreadyExists" /\ state' = state
                ELSE /\ last'.err = "Ok"
                     /\ Names(state') = Append(Names(state), nm)
                     /\ state'.workspaces[Len(state'.workspaces)].clients = << >>
                     /\ SubSeq(state'.workspaces, 1, Len(state.workspaces))
                            = state.workspaces
                     /\ state'.active_workspace = state.active_workspace]_vars

\* the clients of the active workspace of s (none when there is no such
\* workspace)
ActiveClients(s) ==
    IF active_exists(s) THEN active_workspace_clients(s) ELSE << >>

\* the place in the active workspace's client map of the client a window
\* selector denotes in s, 0 when it denotes none
Ref(s, selector) ==
    IF selector.kind = "Focused" /\ s.focused = None THEN 0
    ELSE client_index(ActiveClients(s),
                      IF selector.kind = "Focused" THEN unwrap(s.focused)
                      ELSE selector.window)

\* c lies strictly on the side direction of r
StrictlyOnSide(c, r, direction) ==
    \/ direction = "East" /\ c.pos.x > r.pos.x
    \/ direction = "West" /\ c.pos.x < r.pos.x
    \/ direction = "North" /\ c.pos.y < r.pos.y
    \/ direction = "South" /\ c.pos.y > r.pos.y

\* the squared distance of two clients, in units of 50 x 50 (the clients of
\* Positions are at multiples of 50, so the order of distances is exact)
SqDist(c, r) ==
    LET dx == (c.pos.x - r.pos.x) \div 50
        dy == (c.pos.y - r.pos.y) \div 50
    IN dx * dx + dy * dy

\* the places of the clients other than the i-th strictly on its side
\* direction
Candidates(clients, i, direction) ==
    {j \in 1 .. Len(clients) :
         /\ clients[j].window # clients[i].window
         /\ StrictlyOnSide(clients[j], clients[i], direction)}

\* the candidate nearest to the i-th client, the earliest of the nearest
Nearest(clients, i, direction) ==
    CHOOSE j \in Candidates(clients, i, direction) :
        \A k \in Candidates(clients, i, direction) :
            \/ SqDist(clients[j], clients[i]) < SqDist(clients[k], clients[i])
            \/ /\ SqDist(clients[j], clients[i]) = SqDist(clients[k], clients[i])
               /\ j <= k

\* this step is a call of the registry method op
Calls(op) == pc = "calls" /\ last'.op = op

\* C11: a call focus_closest_client(selector, direction) whose selector
\* denotes a client r of the active workspace with some other client strictly
\* on the side direction of r returns Ok and focuses, of those clients, the
\* one at the least squared distance from r, the earliest in the map's order
\* among equally near ones.
C11_FocusesNearestOnSide ==
    [][(Calls("focus_closest_client")
          /\ Ref(state, last'.args[1]) # 0
          /\ Candidates(ActiveClients(state), Ref(state, last'.args[1]),
                        last'.args[2]) # {})
          => /\ last'.err = "Ok"
             /\ state'.focused =
                    Some(ActiveClients(state)[
                             Nearest(ActiveClients(state),
                                     Ref(state, last'.args[1]),
                                     last'.args[2])].window)]_vars

\* C12: a call focus_closest_client(selector, direction) with no client
\* strictly on the side direction of the client the selector denotes returns
\* Ok and leaves the registry as it was; one whose selector denotes no client
\* returns ClientNotFound and leaves the registry as it was.
C12_NoCandidateNoChange ==
    [][Calls("focus_closest_client")
          => /\ Ref(state, last'.args[1]) = 0
                    => (last'.err = "ClientNotFound" /\ state' = state)
             /\ (/\ Ref(state, last'.args[1]) # 0
                 /\ Candidates(ActiveClients(state), Ref(state, last'.args[1]),
                               last'.args[2]) = {})
                    => (last'.err = "Ok" /\ state' = state)]_vars

\* C15: a call add_client(w, p, s) for a window w of the active workspace
\* returns ClientAlreadyExists and leaves the registry as it was: the active
\* workspace still holds one client for w, at the position and of the size
\* it had.
C15_AddClientTwice ==
    [][(Calls("add_client") /\ InActive(state, last'.args[1]))
          => /\ last'.err = "ClientAlreadyExists"
             /\ state' = state
             /\ Cardinality({j \in 1 .. Len(ActiveClients(state')) :
                                ActiveClients(state')[j].window
                                    = last'.args[1]}) = 1]_vars

\* C15's case: add_client has just been refused for a window whose stored
\* position or size is not the one the call offered
C15_RefusedWithOtherGeometry ==
    /\ last.op = "add_client"
    /\ last.err = "ClientAlreadyExists"
    /\ InActive(state, last.args[1])
    /\ LET c == ActiveClients(state)[client_index(ActiveClients(state),
                                                  last.args[1])]
       IN c.pos # WinPos(last.args[1]) /\ c.size # WinSize(last.args[1])

\* C16: a call remove_client(w) that removes a client sets focused to None
\* when w was focused and leaves focused as it was otherwise, leaves
\* last_focused as it was, and leaves the other clients of the active
\* workspace in the order they were in.
C16_RemoveKeepsOrder ==
    [][(Calls("remove_client") /\ last'.err = "Ok")
          => /\ state'.focused = IF state.focused = Some(last'.args[1])
                                 THEN None ELSE state.focused
             /\ state'.last_focused = state.last_focused
             /\ ActiveClients(state') =
                    SelectSeq(ActiveClients(state),
                              LAMBDA c : c.window # last'.args[1])]_vars

\* C16's case: remove_client has just removed a client that was added before
\* the two that remain, with a window recorded in last_focused and nothing
\* focused
C16_RemovedBeforeOthers ==
    /\ last.op = "remove_client"
    /\ last.err = "Ok"
    /\ Len(ActiveClients(state)) = 2
    /\ ActiveClients(state)[1].window < ActiveClients(state)[2].window
    /\ last.args[1] < ActiveClients(state)[1].window
    /\ state.focused = None
    /\ state.last_focused # None

\* the window a call of a client method is about
Target(call) ==
    IF call.op = "select_client" THEN call.args[1].window ELSE call.args[1]

\* C17: for a window w that no workspace records, the calls remove_client(w),
\* select_client(Window(w)), drag_client(w, _), drag_resize_client(w, _),
\* teleport_client(w, _) and, unless w is the root, focus_client(w) return
\* ClientNotFound and leave the registry as it was; so does
\* select_client(Focused) when nothing is focused.
C17_AbsentWindowNotFound ==
    [][(/\ pc = "calls"
        /\ last'.op \in {"remove_client", "select_client", "drag_client",
                         "drag_resize_client", "teleport_client",
                         "focus_client"}
        /\ IF last'.op = "select_client" /\ last'.args[1].kind = "Focused"
           THEN state.focused = None
           ELSE Target(last') # state.root /\ Records(state, Target(last')) = {})
          => (last'.err = "ClientNotFound" /\ state' = state)]_vars

\* C18: a call drag_resize_client(w, mouse) for a client w of the active
\* workspace returns Ok, sets the client's size to (max(mouse.x - pos.x, 32),
\* max(mouse.y - pos.y, 32)), each at least 32 whatever the other is, and
\* leaves its position and everything else as it was.
C18_ResizeFloorPerAxis ==
    [][(Calls("drag_resize_client") /\ InActive(state, last'.args[1]))
          => LET i == client_index(ActiveClients(state), last'.args[1])
                 pos == ActiveClients(state)[i].pos
                 mouse == last'.args[2]
                 w == IF mouse.x - pos.x >= 32 THEN mouse.x - pos.x ELSE 32
                 h == IF mouse.y - pos.y >= 32 THEN mouse.y - pos.y ELSE 32
             IN /\ last'.err = "Ok"
                /\ w >= 32 /\ h >= 32
                /\ state' = [state EXCEPT
                                !.workspaces[state.active_workspace + 1]
                                    .clients[i].size = Vector2D(w, h)]]_vars

\* C18's case: drag_resize_client has just left a client at the floor on one
\* axis and above it on the other
C18_FloorOnOneAxis ==
    /\ last.op = "drag_resize_client"
    /\ last.err = "Ok"
    /\ LET c == ActiveClients(state)[client_index(ActiveClients(state),
                                                  last.args[1])]
       IN c.size.x > 32 /\ c.size.y = 32 /\ last.args[2].y - c.pos.y < 32

\* C19: a call drag_client(w, mouse_pos) for a client w of the active
\* workspace returns Ok, sets the client's position to drag_start_frame_pos +
\* mouse_pos - drag_start_pos and leaves everything else as it was; with
\* mouse_pos = drag_start_pos the position is drag_start_frame_pos, and the
\* same call again changes nothing.
C19_DragFromAnchors ==
    [][(Calls("drag_client") /\ InActive(state, last'.args[1]))
          => LET i == client_index(ActiveClients(state), last'.args[1])
                 mouse == last'.args[2]
                 pos == Vector2D(
                            state.drag_start_frame_pos.x + mouse.x
                                - state.drag_start_pos.x,
                            state.drag_start_frame_pos.y + mouse.y
                                - state.drag_start_pos.y)
             IN /\ last'.err = "Ok"
                /\ state' = [state EXCEPT
                                !.workspaces[state.active_workspace + 1]
                                    .clients[i].pos = pos]
                /\ mouse = state.drag_start_pos
                       => ActiveClients(state')[i].pos
                              = state.drag_start_frame_pos
                /\ drag_client(state', last'.args[1], mouse).state
                       = state']_vars

\* C19's case: drag_client has just moved a client, which was elsewhere, to
\* where the anchors and the pointer put it, the pointer being away from
\* where the button was pressed
C19_Dragged ==
    /\ last.op = "drag_client"
    /\ last.err = "Ok"
    /\ last.args[2] # state.drag_start_pos
    /\ LET c == ActiveClients(state)[client_index(ActiveClients(state),
                                                  last.args[1])]
       IN /\ c.pos # WinPos(last.args[1])
          /\ c.pos # state.drag_start_frame_pos
          /\ c.size # WinSize(last.args[1])

\* C20: a call focus_client(w) returns Ok, sets focused to None and moves
\* what was focused into last_focused when w is the root; returns Ok, sets
\* focused to w and moves what was focused into last_focused when w is a
\* client of the active workspace; and otherwise returns ClientNotFound and
\* leaves focused and last_focused as they were.
C20_FocusClient ==
    [][Calls("focus_client")
          => IF last'.args[1] = state.root
             THEN /\ last'.err = "Ok"
                  /\ state'.focused = None
                  /\ state'.last_focused = state.focused
             ELSE IF InActive(state, last'.args[1])
             THEN /\ last'.err = "Ok"
                  /\ state'.focused = Some(last'.args[1])
                  /\ state'.last_focused = state.focused
             ELSE /\ last'.err = "ClientNotFound"
                  /\ state'.focused = state.focused
                  /\ state'.last_focused = state.last_focused]_vars

\* this step of the Serve loop activates a workspace: the SelectWorkspace
\* command, or a ClientMessage of type _NET_CURRENT_DESKTOP
Activates ==
    \/ Applies("SelectWorkspace")
    \/ Handles("ClientMessage") /\ Head(events).detail = "_NET_CURRENT_DESKTOP"

\* one request req for each client of clients, in their order
RequestEach(req, clients) ==
    [i \in 1 .. Len(clients) |->
        [req |-> req, window |-> clients[i].window, value |-> << >>]]

\* C21: a workspace activation that succeeds emits exactly: UnmapWindow for
\* each client of the workspace that was active, in the map's order; then
\* the current-desktop property with the index that is active afterwards;
\* then MapWindow for each client of the workspace that is active afterwards.
\* No MapWindow precedes an UnmapWindow.
C21_ActivationOrder ==
    [][(Activates /\ pc' = "serve")
          => /\ requests' =
                    RequestEach("UnmapWindow", ActiveClients(state))
                    \o << [req |-> "ChangeProperty", window |-> state.root,
                           value |-> << "_NET_CURRENT_DESKTOP",
                                        state'.active_workspace >>] >>
                    \o RequestEach("MapWindow", ActiveClients(state'))
             /\ \A i, j \in 1 .. Len(requests') :
                    (requests'[i].req = "MapWindow"
                         /\ requests'[j].req = "UnmapWindow") => j < i]_vars

\* C21's case: the last input activated another workspace than the one that
\* was active, whose clients it unmapped
C21_SwitchedAway ==
    /\ last.op \in {"SelectWorkspace", "ClientMessage"}
    /\ pc = "serve"
    /\ Len(requests) >= 2
    /\ requests[1].req = "UnmapWindow"
    /\ state.active_workspace = 1

\* C22: the step that takes Command::Quit from the channel leaves the Serve
\* loop with run() returning Ok, and from then on no step changes the
\* registry or the configuration or emits a protocol request, whatever is
\* queued or arrives.
C22_QuitStopsServing ==
    /\ [][Applies("Quit") => (pc' = "quit" /\ last'.err = "Ok"
                                 /\ requests' = << >>)]_vars
    /\ [][pc = "quit" => (/\ pc' = "quit"
                          /\ state' = state
                          /\ config' = config
                          /\ requests' = requests)]_vars

\* C22's case: the loop has quit with an event and a command in the channels
C22_QuitWithInputsQueued ==
    /\ pc = "quit"
    /\ events # << >>
    /\ commands # << >>

\* this step is Setup, ending with outcome err
SetupEnds(err) == pc = "setup" /\ last'.op = "Setup" /\ last'.err = err

\* C23: when the server rejects the root event mask, run() fails and nothing
\* of Setup after it has happened: no request was sent (no child window, no
\* EWMH property), and neither the reader thread nor the IPC listener thread
\* has been started.
C23_RejectedDoesNothing ==
    [][SetupEnds("AnotherWindowManager")
          => /\ pc' = "failed"
             /\ requests' = << >>
             /\ state'.child = NoneXid
             /\ threads' = {}]_vars

\* C24: when the autostart program cannot be executed, Setup still
\* completes: the desktop count and names are advertised, the reader thread
\* is spawned and the manager serves.
C24_AutostartFailureNotFatal ==
    [][SetupEnds("AutostartFailed")
          => /\ pc' = "serve"
             /\ "reader" \in threads'
             /\ \E i \in 1 .. Len(requests') :
                    /\ requests'[i].req = "ChangeProperty"
                    /\ requests'[i].value[1] = "_NET_NUMBER_OF_DESKTOPS"]_vars

\* this step is the worker of the i-th connection ending
WorkerEnds(i) ==
    /\ i \in 1 .. Len(connections)
    /\ connections[i].closed
    /\ connections' = SubSeq(connections, 1, i - 1)
                          \o SubSeq(connections, i + 1, Len(connections))

\* C25: the worker of a connection whose body is no Command puts nothing on
\* the command channel, and the worker of one whose body is a Command puts
\* that command on it, once; either way the listener goes on and the other
\* connections are as they were.  The command channel holds commands only.
C25_MalformedDropped ==
    /\ [][\A i \in 1 .. MaxConnections :
              WorkerEnds(i)
                  => /\ threads' = threads
                     /\ IF connections[i].body.text = "json"
                        THEN commands' =
                                 Append(commands, connections[i].body.command)
                        ELSE commands' = commands]_vars
    /\ [](\A i \in 1 .. Len(commands) : commands[i] # None)

\* C25's case: a connection with a malformed body has been dropped while
\* another connection, with a command, was open, and that command is now on
\* the channel
C25_DroppedBesideCommand ==
    /\ inputs >= 2
    /\ connections = << >>
    /\ Len(commands) = 1
    /\ commands[1].cmd = "SetBorderWidth"
    /\ commands[1].value = 1

\* C26: with the threads scheduled fairly, a command on a connection its
\* client has closed is eventually applied by the dispatch loop, unless
\* run() has ended by then.
C26_ClosedCommandApplied ==
    \A k \in 1 .. MaxInputs :
        (\E i \in 1 .. Len(connections) :
             /\ connections[i].closed
             /\ connections[i].body.text = "json"
             /\ connections[i].body.command.value = k)
        ~> (\/ pc \in {"quit", "failed", "panicked"}
            \/ last.op = "SetBorderWidth" /\ config.border_width = k)

\* C26's case: the command of a closed connection has been applied
C26_Applied ==
    /\ pc = "serve"
    /\ last.op = "SetBorderWidth"
    /\ config.border_width = 2
    /\ connections = << >>

\* the border width a request sets, -1 when it sets none
WidthOf(r) ==
    IF r.req # "ConfigureWindow" THEN -1
    ELSE IF r.value[1] = "BorderWidth" THEN r.value[2]
    ELSE IF r.value[1] = "Geometry" THEN r.value[5]
    ELSE -1

\* C27: SetBorderWidth stores its width and sends exactly one border-width
\* request with that width for each client of the active workspace, and none
\* for any other window; every MapRequest and ConfigureRequest of a non-dock
\* window that the loop takes afterwards sets the stored width on that
\* window, and the stored width changes by SetBorderWidth only.
C27_BorderWidth ==
    [][/\ Applies("SetBorderWidth")
           => /\ pc' = "serve"
              /\ config' = [config EXCEPT !.border_width = Head(commands).value]
              /\ requests' =
                     [i \in 1 .. Len(ActiveClients(state)) |->
                         [req |-> "ConfigureWindow",
                          window |-> ActiveClients(state)[i].window,
                          value |-> << "BorderWidth", Head(commands).value >>]]
       /\ (/\ Handles("MapRequest") \/ Handles("ConfigureRequest")
           /\ Head(events).window \notin Docks)
           => /\ \E i \in 1 .. Len(requests') :
                     /\ requests'[i].window = Head(events).window
                     /\ WidthOf(requests'[i]) = config.border_width
              /\ \A i \in 1 .. Len(requests') :
                     WidthOf(requests'[i]) \in {-1, config.border_width}
       /\ config'.border_width # config.border_width
           => Applies("SetBorderWidth")]_vars

\* C27, for the handlers that return Ok: the same, where the MapRequest or
\* ConfigureRequest is one after which the loop keeps serving
C27_BorderWidthWhenHandled ==
    [][/\ Applies("SetBorderWidth")
           => /\ pc' = "serve"
              /\ config' = [config EXCEPT !.border_width = Head(commands).value]
              /\ requests' =
                     [i \in 1 .. Len(ActiveClients(state)) |->
                         [req |-> "ConfigureWindow",
                          window |-> ActiveClients(state)[i].window,
                          value |-> << "BorderWidth", Head(commands).value >>]]
       /\ (/\ Handles("MapRequest") \/ Handles("ConfigureRequest")
           /\ Head(events).window \notin Docks
           /\ pc' = "serve")
           => /\ \E i \in 1 .. Len(requests') :
                     /\ requests'[i].window = Head(events).window
                     /\ WidthOf(requests'[i]) = config.border_width
              /\ \A i \in 1 .. Len(requests') :
                     WidthOf(requests'[i]) \in {-1, config.border_width}
       /\ config'.border_width # config.border_width
           => Applies("SetBorderWidth")]_vars

\* the clients of the active workspace of s other than its focused window
Unfocused(s) ==
    LET Other(client) == Some(client.window) # s.focused
    IN SelectSeq(ActiveClients(s), Other)

\* the request that gives window the border colour color
Recolour(window, color) ==
    [req |-> "ChangeWindowAttributes", window |-> window,
     value |-> << "BorderPixel", color >>]

\* C28: SetBorderColor stores its colour and sends exactly one recolour with
\* it for each client of the active workspace other than the focused window,
\* none for the focused window; SetFocusedBorderColor stores its colour and
\* sends exactly one recolour, for the focused window, or nothing when no
\* window is focused.
C28_ColourCommands ==
    [][/\ Applies("SetBorderColor")
           => /\ pc' = "serve"
              /\ config' = [config EXCEPT !.border_color = Head(commands).value]
              /\ requests' =
                     [i \in 1 .. Len(Unfocused(state)) |->
                         Recolour(Unfocused(state)[i].window,
                                  Head(commands).value)]
              /\ \A i \in 1 .. Len(requests') :
                     Some(requests'[i].window) # state.focused
       /\ Applies("SetFocusedBorderColor")
           => /\ pc' = "serve"
              /\ config' = [config EXCEPT
                                !.focused_border_color = Head(commands).value]
              /\ requests' =
                     IF state.focused = None THEN << >>
                     ELSE << Recolour(unwrap(state.focused),
                                      Head(commands).value) >>]_vars

\* C28's case: SetBorderColor was applied while one of the two clients of
\* the active workspace was focused, and recoloured the other one only
C28_FocusedSkipped ==
    /\ pc = "serve"
    /\ last.op = "SetBorderColor"
    /\ Len(ActiveClients(state)) = 2
    /\ state.focused # None
    /\ InActive(state, unwrap(state.focused))
    /\ Len(requests) = 1
    /\ xserver.border[unwrap(state.focused)] = config.focused_border_color
    /\ xserver.border[requests[1].window] = config.border_color

\* the windows of the registry's client maps that exist and whose border
\* has the focused border colour
FocusColoured ==
    {w \in xserver.alive :
         /\ Records(state, w) # {}
         /\ xserver.border[w] = config.focused_border_color}

\* this step changes the focus to window: a ButtonPress with the select
\* button on it, or a FocusClosest that resolves to it
FocusChange(window) ==
    /\ pc' = "serve"
    /\ \/ /\ Handles("ButtonPress")
          /\ Head(events).detail = 1
          /\ Head(events).window = window
       \/ /\ Applies("FocusClosest")
          /\ state' # state
          /\ state'.focused = Some(window)

\* every focus change sends, in this order: the unfocused colour for the
\* window focused before (if any), then for the new window the input focus,
\* the focused colour, the input focus again, the top stacking position and
\* the active-window property; a FocusClosest that resolves to no window
\* sends nothing
FocusChangeOrder ==
    /\ \A window \in AllWindows \cup {Root} :
           FocusChange(window)
               => requests' =
                      (IF state.focused = None THEN << >>
                       ELSE << Recolour(unwrap(state.focused),
                                        config.border_color) >>)
                      \o << [req |-> "SetInputFocus", window |-> window,
                              value |-> << >>],
                            Recolour(window, config.focused_border_color),
                            [req |-> "SetInputFocus", window |-> window,
                             value |-> << >>],
                            [req |-> "ConfigureWindow", window |-> window,
                             value |-> << "StackMode", "Above" >>],
                            [req |-> "ChangeProperty", window |-> Root,
                             value |-> << "_NET_ACTIVE_WINDOW", window >>] >>
    /\ Applies("FocusClosest") /\ state' = state => requests' = << >>

\* C29 as stated: after any sequence of inputs at most one managed window
\* carries the focused border colour, and every focus change recolours the
\* window focused before to the unfocused colour before it gives the new
\* window the focused colour, the input focus, the top stacking position and
\* the active-window property.
C29_OneFocusedColour ==
    /\ [](Cardinality(FocusColoured) <= 1)
    /\ [][FocusChangeOrder]_vars

\* no colour has been both the border colour and the focused border colour:
\* at most one of the two has been changed, and Colors holds neither default
ColoursApart ==
    \/ config.border_color = DefaultConfig.border_color
    \/ config.focused_border_color = DefaultConfig.focused_border_color

\* C29, amended: as long as no colour has been configured both as the border
\* colour and as the focused border colour, at most one managed window
\* carries the focused border colour; and every focus change recolours the
\* window focused before to the unfocused colour before it gives the new
\* window the focused colour, the input focus, the top stacking position and
\* the active-window property.
C29_OneFocusedColourApart ==
    /\ [](ColoursApart => Cardinality(FocusColoured) <= 1)
    /\ [][FocusChangeOrder]_vars

\* C29's case: FocusClosest moved the focus from window 1 to window 2;
\* window 1 has the unfocused colour again and window 2 the focused one
C29_FocusMoved ==
    /\ pc = "serve"
    /\ last.op = "FocusClosest"
    /\ state.focused = Some(2)
    /\ state.last_focused = Some(1)
    /\ Len(requests) = 6
    /\ xserver.border[1] = config.border_color
    /\ xserver.border[2] = config.focused_border_color
    /\ FocusColoured = {2}

\* C30: a rename_workspace(selector, n) that succeeds leaves the number of
\* workspaces, every workspace's clients, the names of the workspaces other
\* than one the selector denotes, active_workspace, focused and last_focused
\* as they were, and that one workspace is named n; with a selector that
\* denotes no workspace it fails with WorkspaceNotFound; a failed rename
\* changes nothing.
C30_RenameFrame ==
    [][Calls("rename_workspace")
          => LET selector == last'.args[1]
                 n == last'.args[2]
             IN /\ Denoted(state, selector) = {}
                       => last'.err = "WorkspaceNotFound"
                /\ last'.err # "Ok" => state' = state
                /\ last'.err = "Ok"
                       => /\ Len(state'.workspaces) = Len(state.workspaces)
                          /\ \A j \in 1 .. Len(state.workspaces) :
                                 state'.workspaces[j].clients
                                     = state.workspaces[j].clients
                          /\ \E i \in Denoted(state, selector) :
                                 /\ state'.workspaces[i + 1].name = n
                                 /\ \A j \in 1 .. Len(state.workspaces) :
                                        j # i + 1
                                            => state'.workspaces[j].name
                                                   = state.workspaces[j].name
                          /\ state'.active_workspace = state.active_workspace
                          /\ state'.focused = state.focused
                          /\ state'.last_focused = state.last_focused
                          /\ state'.root = state.root]_vars

\* C30's case: the first of two workspaces, which has a client, has just
\* been renamed "a" while the second was active and a window was focused
C30_RenamedWithClients ==
    /\ last.op = "rename_workspace"
    /\ last.err = "Ok"
    /\ Len(state.workspaces) = 2
    /\ state.workspaces[1].name = "a"
    /\ state.workspaces[1].clients # << >>
    /\ state.workspaces[2].name # "a"
    /\ state.active_workspace = 1
    /\ state.focused # None

\* the command SetBorderWidth{k} waits on a connection its client has closed
ClosedPending(k) ==
    \E i \in 1 .. Len(connections) :
        /\ connections[i].closed
        /\ connections[i].body.text = "json"
        /\ connections[i].body.command.cmd = "SetBorderWidth"
        /\ connections[i].body.command.value = k

\* C31: when every client closes its connection before the next one
\* connects, no command B (the k2-th input) has been applied by the dispatch
\* loop while the command A of an earlier client (the k1-th input, k1 < k2)
\* still waits on its closed connection for its worker.
C31_SenderOrder ==
    \A k1 \in 1 .. MaxInputs, k2 \in 1 .. MaxInputs :
        (k1 < k2 /\ ClosedPending(k1)) => config.border_width # k2

\* C32: a process that fails to start because a window manager is already
\* running has neither removed nor rebound the socket path, and has accepted
\* no connection: the commands still reach the manager that is running.
C32_EndpointKept ==
    last.err = "AnotherWindowManager"
        => ("listener" \notin threads /\ connections = << >>)

\* C33: while the manager serves, when the registry's focused is Some(w),
\* the window that last received a SetInputFocus request is w.
C33_InputFocusFollows ==
    (pc = "serve" /\ state.focused # None)
        => xserver.focus = unwrap(state.focused)

\* the loop has taken the DestroyNotify of the destroyed window w
Processed(w) ==
    /\ w \in xserver.destroyed
    /\ \A i \in 1 .. Len(events) :
           ~(events[i].type = "DestroyNotify" /\ events[i].window = w)

\* C34: no request of a handler that runs after the loop has taken the
\* DestroyNotify of window w targets w.
C34_NoRequestAfterDestroy ==
    \A w \in AllWindows :
        Processed(w) => \A i \in 1 .. Len(requests) : requests[i].window # w

\* C35: while the manager serves, every window that exists, is mapped and is
\* a client of the active workspace has the configured border width.
C35_MappedHaveWidth ==
    pc = "serve"
        => \A w \in xserver.alive \cap xserver.mapped :
               InActive(state, w) => xserver.width[w] = config.border_width

\* C36: while the manager serves, the position and size the registry records
\* for a client that exists are those the window has on the server after the
\* manager's requests.
C36_RegistryGeometry ==
    pc = "serve"
        => \A w \in xserver.alive :
               \A r \in Records(state, w) :
                   /\ state.workspaces[r[1]].clients[r[2]].pos
                          = xserver.geometry[w].pos
                   /\ state.workspaces[r[1]].clients[r[2]].size
                          = xserver.geometry[w].size

\* the selector of the activation this step carries out
Activated ==
    IF Applies("SelectWorkspace") THEN Head(commands).selector
    ELSE Index(Head(events).data)

\* C37: an activation whose selector denotes no workspace emits no request
\* and leaves active_workspace as it was.
C37_UnresolvedEmitsNothing ==
    [][(Activates /\ Denoted(state, Activated) = {})
          => /\ requests' = << >>
             /\ state'.active_workspace = state.active_workspace]_vars

\* C37, for name selectors only: the same, where the selector is a name no
\* workspace has
C37_UnresolvedNameEmitsNothing ==
    [][(Activates /\ Activated.kind = "Name" /\ Denoted(state, Activated) = {})
          => /\ requests' = << >>
             /\ state'.active_workspace = state.active_workspace]_vars

\* C38: while the manager serves, a window that exists and is in a client
\* map of the registry is mapped if and only if it is a client of the active
\* workspace.
C38_MappedIffActive ==
    pc = "serve"
        => \A w \in xserver.alive :
               Records(state, w) # {}
                   => (w \in xserver.mapped <=> InActive(state, w))

\* C38's case: after an activation and a MapRequest one managed window is
\* mapped, in the active workspace, and another is unmapped, in an inactive
\* one
C38_OneShownOneHidden ==
    /\ pc = "serve"
    /\ last.op = "MapRequest"
    /\ \E w \in xserver.alive \cap xserver.mapped : InActive(state, w)
    /\ \E w \in xserver.alive \ xserver.mapped :
           Records(state, w) # {} /\ ~InActive(state, w)

\* the call before this one was a rename_workspace(_, n) that returned Ok,
\* on a registry of two or more workspaces
Renamed(n) ==
    /\ last.op = "rename_workspace"
    /\ last.err = "Ok"
    /\ last.args[2] = n
    /\ Len(state.workspaces) >= 2

\* C39: right after a rename_workspace(_, n) that returned Ok,
\* activate_workspace(Name(n)) returns Ok and activates a workspace named n,
\* rename_workspace(Name(n), m) returns Ok and names a workspace m that was
\* named n, and add_workspace(Some(n)) returns WorkspaceAlreadyExists and
\* changes nothing; and when the rename selected by a name that no workspace
\* bears any more, activate_workspace by that old name returns
\* WorkspaceNotFound.  (Stated of registries of two or more workspaces, where
\* every lookup goes through the map's hash table.)
C39_NewNameResolves ==
    [][\A n \in WsNames :
          Renamed(n)
              => /\ (Calls("activate_workspace") /\ last'.args[1] = Name(n))
                        => /\ last'.err = "Ok"
                           /\ state'.active_workspace \in Denoted(state, Name(n))
                 /\ (Calls("rename_workspace") /\ last'.args[1] = Name(n))
                        => /\ last'.err = "Ok"
                           /\ \E i \in Denoted(state, Name(n)) :
                                  state'.workspaces[i + 1].name = last'.args[2]
                 /\ (Calls("add_workspace") /\ last'.args[1] = Some(n))
                        => /\ last'.err = "WorkspaceAlreadyExists"
                           /\ state' = state
                 /\ ( /\ last.args[1].kind = "Name"
                      /\ Denoted(state, last.args[1]) = {}
                      /\ Calls("activate_workspace")
                      /\ last'.args[1] = last.args[1] )
                        => last'.err = "WorkspaceNotFound"]_vars

\* C40: every call add_workspace(None) returns Ok, and the workspace it
\* appends bears a name no workspace bore before the call.
C40_DefaultNameFresh ==
    [][AddsDefault
          => /\ last'.err = "Ok"
             /\ Len(state'.workspaces) = Len(state.workspaces) + 1
             /\ Denoted(state, Name(state'.workspaces[Len(state'.workspaces)].name)) = {}]_vars

=============================================================================
